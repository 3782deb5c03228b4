----------------------------- MODULE RecordsProofs -----------------------------
(***************************************************************************)
(* Proofs about Records: the processing of inbox messages, and evidence,   *)
(* contract terms, risk register, passport, prices, quantities, cost       *)
(* models and signed packages, each with its inductive invariant.          *)
(***************************************************************************)
EXTENDS Records, FiniteSetTheorems, SequenceTheorems, WellFoundedInduction, TLAPS

-----------------------------------------------------------------------------
(* The inbox, for any envelopes, API processes and handlers, any policy and *)
(* any number of generations and qualifications.                            *)

\* Two stored messages share neither a message id nor a deduplication key: the
\* two unique constraints of integration_inbox_messages.
MessagesAreUnique ==
    \A a, b \in inbox : (a.id = b.id \/ a.key = b.key) => a = b

\* A message is stored together with its first generation, and no generation
\* exists of a message that is not stored.
RowsBelongToMessages ==
    /\ \A a \in inbox : processing[<<a.key, 1>>].exists
    /\ \A p \in Processing :
          processing[p].exists => \E a \in inbox : a.key = p[1]

\* Only a generation that exists is consumed or dead-lettered.
VerdictsExist ==
    \A p \in Processing : Settled(processing[p]) => processing[p].exists

\* A generation has at most one verdict.
OneVerdict ==
    \A p \in Processing : ~(processing[p].published /\ processing[p].deadLettered)

\* All generations of a message before an existing one are dead-lettered, not
\* only its predecessor.
OlderAreDead ==
    \A p, q \in Processing :
        p[1] = q[1] /\ p[2] < q[2] /\ processing[q].exists
            => processing[p].deadLettered

\* The inductive invariant.
IInv ==
    /\ TypeOK
    /\ MessagesAreUnique
    /\ RowsBelongToMessages
    /\ receipts \subseteq inbox
    /\ VerdictsExist
    /\ OneVerdict
    /\ OlderAreDead

\* A message is consumed in one of its generations at most.
OneConsumption ==
    \A p, q \in Processing :
        p[1] = q[1] /\ processing[p].published /\ processing[q].published => p = q

\* A verdict on a generation is final.
VerdictsAreFinal ==
    [][\A p \in Processing :
          Settled(processing[p]) =>
             /\ processing'[p].published = processing[p].published
             /\ processing'[p].deadLettered = processing[p].deadLettered]_vars

-----------------------------------------------------------------------------
(* Typing.                                                                  *)

\* The first and the next generation of a message.
LEMMA Generations ==
    /\ \A k \in Key : <<k, 1>> \in Processing
    /\ \A k \in Key, g \in 1 .. MaxGenerations - 1 :
          <<k, g>> \in Processing /\ <<k, g + 1>> \in Processing
    /\ \A p \in Processing :
          /\ p[1] \in Key
          /\ p[2] \in 1 .. MaxGenerations
          /\ p = <<p[1], p[2]>>
  BY InboxAssumption DEF Processing

LEMMA ClaimTyped ==
    ASSUME TypeOK, NEW w \in Worker, claim[w] # NoClaim
    PROVE  /\ claim[w] \in Claim
           /\ claim[w].row \in Processing
           /\ processing[claim[w].row] \in Row
  BY DEF TypeOK, Claim

LEMMA CallTyped ==
    ASSUME TypeOK, NEW r \in Receiver, call[r] # NoCall
    PROVE  call[r] \in Envelope /\ call[r].key \in Key
  BY DEF TypeOK, Envelope

\* The token of a claim is one that no handler and no row remembers.
LEMMA FreshTokenTyped == ASSUME TypeOK PROVE FreshToken \in Token
<1>1. PICK any \in Token : TRUE
  BY TokenAssumption
<1> DEFINE f == [w \in Worker |-> IF claim[w] # NoClaim THEN claim[w].token ELSE any]
           g == [p \in Processing |-> IF processing[p].lease # NoLease
                                      THEN processing[p].lease.token ELSE any]
<1>2. f \in [Worker -> Token]
  BY DEF TypeOK, Claim
<1>3. g \in [Processing -> Token]
  BY DEF TypeOK, Row, Lease
<1>4. /\ \A w \in Worker : claim[w] # NoClaim => f[w] = claim[w].token
      /\ \A p \in Processing :
            processing[p].lease # NoLease => g[p] = processing[p].lease.token
  OBVIOUS
<1> HIDE DEF f, g
<1>5. PICK t \in Token : (\A w \in Worker : f[w] # t) /\ (\A p \in Processing : g[p] # t)
  BY <1>2, <1>3, TokenAssumption
<1> QED
  BY <1>4, <1>5 DEF FreshToken

\* What a step does to one row: the first generation is inserted with its
\* message, the next one by a replay, a handler claims or settles an open row,
\* and time passes.
RowAged(p) == processing'[p] = AgedRow(processing[p])

RowClaimed(p) ==
    /\ Claimable(processing[p])
    /\ \E w \in Worker, t \in Token : processing'[p] = ClaimedRow(processing[p], w, t)

RowSettled(p) ==
    /\ Pending(processing[p])
    /\ \/ processing'[p] = PublishedRow(processing[p])
       \/ \E force \in BOOLEAN :
             processing'[p] = RejectedRow(processing[p], force, TRUE)

RowInserted(p) ==
    /\ processing'[p] = InsertedRow
    /\ \/ /\ p[2] = 1
          /\ \A m \in inbox : m.key # p[1]
          /\ \E m \in inbox' : m.key = p[1]
       \/ /\ p[2] - 1 \in 1 .. MaxGenerations - 1
          /\ processing[<<p[1], p[2] - 1>>].deadLettered
          /\ ~processing[p].exists

LEMMA ClaimNextRows ==
    ASSUME TypeOK, NEW w \in Worker, ClaimNext(w)
    PROVE  /\ processing' \in [Processing -> Row]
           /\ \A p \in Processing : processing'[p] = processing[p] \/ RowClaimed(p)
<1>1. PICK p \in Processing :
         /\ Claimable(processing[p])
         /\ processing' = [processing EXCEPT ![p] = ClaimedRow(processing[p], w, FreshToken)]
  BY DEF ClaimNext
<1>2. PICK t \in Token : t = FreshToken
  BY FreshTokenTyped
<1>3. ClaimedRow(processing[p], w, t) \in Row
  BY ClaimedRowProperties DEF TypeOK
<1>4. processing' = [processing EXCEPT ![p] = ClaimedRow(processing[p], w, t)]
  BY <1>1, <1>2
<1> QED
  BY <1>1, <1>3, <1>4 DEF TypeOK, RowClaimed

LEMMA SettlementRows ==
    ASSUME TypeOK, NEW w \in Worker, Acknowledge(w) \/ Reject(w)
    PROVE  /\ processing' \in [Processing -> Row]
           /\ \A p \in Processing : processing'[p] = processing[p] \/ RowSettled(p)
<1>0. claim[w] # NoClaim
  BY DEF Acknowledge, Reject
<1>1. PICK p \in Processing : p = claim[w].row
  BY <1>0, ClaimTyped
<1>2. processing[p] \in Row
  BY DEF TypeOK
<1>3. CASE UNCHANGED processing
  BY <1>3 DEF TypeOK
<1>4. CASE /\ OwnsProcessing(w)
           /\ processing' = [processing EXCEPT ![p] = PublishedRow(processing[p])]
  <2>1. PublishedRow(processing[p]) \in Row
    BY <1>2, PublishedRowProperties
  <2>2. Pending(processing[p])
    BY <1>1, <1>4 DEF OwnsProcessing
  <2> QED
    BY <1>4, <2>1, <2>2 DEF TypeOK, RowSettled
<1>5. CASE /\ OwnsProcessing(w)
           /\ \E force \in BOOLEAN :
                 processing' = [processing EXCEPT ![p] =
                                   RejectedRow(processing[p], force, TRUE)]
  <2>1. PICK force \in BOOLEAN :
           processing' = [processing EXCEPT ![p] = RejectedRow(processing[p], force, TRUE)]
    BY <1>5
  <2>2. RejectedRow(processing[p], force, TRUE) \in Row
    BY <1>2, RejectedRowProperties
  <2>3. Pending(processing[p])
    BY <1>1, <1>5 DEF OwnsProcessing
  <2> QED
    BY <2>1, <2>2, <2>3 DEF TypeOK, RowSettled
<1> QED
  BY <1>1, <1>3, <1>4, <1>5 DEF Acknowledge, Reject

LEMMA StoreRows ==
    ASSUME TypeOK, NEW r \in Receiver, Store(r)
    PROVE  /\ processing' \in [Processing -> Row]
           /\ \A p \in Processing : processing'[p] = processing[p] \/ RowInserted(p)
<1>1. CASE UNCHANGED processing
  BY <1>1 DEF TypeOK
<1>2. CASE /\ Existing(call[r]) = {}
           /\ inbox' = inbox \cup {call[r]}
           /\ processing' = [processing EXCEPT ![<<call[r].key, 1>>] = InsertedRow]
  <2>1. PICK k \in Key : k = call[r].key
    BY CallTyped DEF Store
  <2>2. <<k, 1>> \in Processing /\ <<k, 1>>[1] = k /\ <<k, 1>>[2] = 1
    BY Generations
  <2>3. (\A m \in inbox : m.key # k) /\ \E m \in inbox' : m.key = k
    BY <1>2, <2>1 DEF Existing
  <2> QED
    BY <1>2, <2>1, <2>2, <2>3, RowTyped DEF TypeOK, RowInserted
<1> QED
  BY <1>1, <1>2 DEF Store

LEMMA ReplayRows ==
    ASSUME TypeOK, NEW k \in Key, NEW g \in 1 .. MaxGenerations - 1,
           ReplayDeadLetter(k, g)
    PROVE  /\ processing' \in [Processing -> Row]
           /\ \A p \in Processing : processing'[p] = processing[p] \/ RowInserted(p)
<1>1. PICK n \in 1 .. MaxGenerations : n = g + 1 /\ n - 1 = g
  BY InboxAssumption
<1>2. <<k, n>> \in Processing /\ <<k, n>>[1] = k /\ <<k, n>>[2] = n
  BY DEF Processing
<1>3. /\ processing' = [processing EXCEPT ![<<k, n>>] = InsertedRow]
      /\ processing[<<k, n - 1>>].deadLettered
      /\ ~processing[<<k, n>>].exists
  BY <1>1 DEF ReplayDeadLetter, Replayable
<1> QED
  BY <1>1, <1>2, <1>3, RowTyped DEF TypeOK, RowInserted

\* Every row is left alone, inserted, claimed, settled or aged.
LEMMA RowSteps ==
    ASSUME TypeOK, Next
    PROVE  /\ processing' \in [Processing -> Row]
           /\ \A p \in Processing :
                 \/ processing'[p] = processing[p]
                 \/ RowInserted(p)
                 \/ RowClaimed(p)
                 \/ RowSettled(p)
                 \/ RowAged(p)
<1>1. CASE Receive
  <2>1. CASE \E r \in Receiver : Store(r)
    BY <2>1, StoreRows
  <2>2. CASE UNCHANGED processing
    BY <2>2 DEF TypeOK
  <2> QED
    BY <1>1, <2>1, <2>2 DEF Receive, AnswerDuplicate, LookUp, ReceptionFails
<1>2. CASE \E w \in Worker : ClaimNext(w) \/ Acknowledge(w) \/ Reject(w) \/ Crash(w)
  <2>1. ASSUME \E w \in Worker : Crash(w) PROVE UNCHANGED processing
    BY <2>1 DEF Crash
  <2> QED
    BY <1>2, <2>1, ClaimNextRows, SettlementRows DEF TypeOK
<1>3. CASE \E k \in Key, g \in 1 .. MaxGenerations - 1 : ReplayDeadLetter(k, g)
  BY <1>3, ReplayRows
<1>4. CASE RotateQualification
  BY <1>4 DEF RotateQualification, TypeOK
<1>5. CASE Tick
  <2>1. \A p \in Processing : processing'[p] = AgedRow(processing[p])
    BY <1>5 DEF Tick
  <2>2. \A p \in Processing : AgedRow(processing[p]) \in Row
    BY AgedRowProperties DEF TypeOK
  <2>3. processing' \in [Processing -> Row]
    BY <1>5, <2>2 DEF Tick
  <2> QED
    BY <2>1, <2>3 DEF RowAged
<1> QED
  BY <1>1, <1>2, <1>3, <1>4, <1>5 DEF Next

\* The claim of a handler after a step.
LEMMA ClaimSteps == ASSUME TypeOK, Next PROVE claim' \in [Worker -> Claim \cup {NoClaim}]
<1>1. ASSUME NEW w \in Worker, ClaimNext(w)
      PROVE  claim' \in [Worker -> Claim \cup {NoClaim}]
  <2>1. PICK p \in Processing, t \in Token :
           claim' = [claim EXCEPT ![w] =
                        [row |-> p, token |-> t, by |-> active, elapsed |-> 0]]
    BY <1>1, FreshTokenTyped DEF ClaimNext
  <2>2. 0 \in 0 .. LeaseSeconds
    BY PolicyAssumption
  <2> QED
    BY <2>1, <2>2 DEF TypeOK, Claim
<1>2. ASSUME NEW w \in Worker, Acknowledge(w) \/ Reject(w) \/ Crash(w)
      PROVE  claim' \in [Worker -> Claim \cup {NoClaim}]
  BY <1>2 DEF Acknowledge, Reject, Crash, TypeOK
<1>3. ASSUME Tick PROVE claim' \in [Worker -> Claim \cup {NoClaim}]
  <2>1. ASSUME NEW w \in Worker, claim[w] # NoClaim, claim[w].elapsed < LeaseSeconds
        PROVE  [claim[w] EXCEPT !.elapsed = @ + 1] \in Claim
    <3>1. claim[w] \in Claim
      BY <2>1, ClaimTyped
    <3>2. claim[w].elapsed + 1 \in 0 .. LeaseSeconds
      BY <2>1, <3>1, PolicyAssumption DEF Claim
    <3> QED
      BY <3>1, <3>2 DEF Claim
  <2>2. \A w \in Worker :
           (IF claim[w] # NoClaim /\ claim[w].elapsed < LeaseSeconds
            THEN [claim[w] EXCEPT !.elapsed = @ + 1]
            ELSE claim[w]) \in Claim \cup {NoClaim}
    BY <2>1 DEF TypeOK
  <2> QED
    BY <1>3, <2>2 DEF Tick
<1>4. ASSUME UNCHANGED claim PROVE claim' \in [Worker -> Claim \cup {NoClaim}]
  BY <1>4 DEF TypeOK
<1> QED
  BY <1>1, <1>2, <1>3, <1>4
  DEF Next, Receive, AnswerDuplicate, LookUp, Store, ReceptionFails,
      ReplayDeadLetter, RotateQualification

LEMMA TypeStep == ASSUME TypeOK, Next PROVE TypeOK'
<1>1. processing' \in [Processing -> Row] /\ claim' \in [Worker -> Claim \cup {NoClaim}]
  BY RowSteps, ClaimSteps
<1>2. CASE Receive
  <2>1. ASSUME NEW r \in Receiver, NEW envelope \in Envelope,
               AnswerDuplicate(r, envelope) \/ LookUp(r, envelope)
        PROVE  /\ inbox' \subseteq Envelope
               /\ receipts' \subseteq Envelope
               /\ call' \in [Receiver -> Envelope \cup {NoCall}]
    BY <2>1 DEF AnswerDuplicate, LookUp, TypeOK
  <2>2. ASSUME NEW r \in Receiver, Store(r) \/ ReceptionFails(r)
        PROVE  /\ inbox' \subseteq Envelope
               /\ receipts' \subseteq Envelope
               /\ call' \in [Receiver -> Envelope \cup {NoCall}]
    <3>1. call[r] \in Envelope
      BY <2>2, CallTyped DEF Store, ReceptionFails
    <3>2. inbox' \subseteq inbox \cup {call[r]} /\ receipts' \subseteq receipts \cup {call[r]}
      BY <2>2 DEF Store, ReceptionFails
    <3>3. call' \in [Receiver -> Envelope \cup {NoCall}]
      BY <2>2 DEF Store, ReceptionFails, TypeOK
    <3> QED
      BY <3>1, <3>2, <3>3 DEF TypeOK
  <2>3. UNCHANGED <<handler, active, faults>>
    BY <1>2 DEF Receive, AnswerDuplicate, LookUp, Store, ReceptionFails
  <2> QED
    BY <1>1, <1>2, <2>1, <2>2, <2>3 DEF Receive, TypeOK
<1>3. CASE \E w \in Worker : ClaimNext(w)
  <2>1. handler' \in [Processing -> Qualification \cup {NoQualification}]
    BY <1>3 DEF ClaimNext, TypeOK
  <2> QED
    BY <1>1, <1>3, <2>1 DEF ClaimNext, TypeOK
<1>4. CASE \E w \in Worker : Acknowledge(w) \/ Reject(w)
  BY <1>1, <1>4 DEF Acknowledge, Reject, TypeOK
<1>5. CASE \E w \in Worker : Crash(w)
  <2>1. faults' \in 0 .. MaxFaults
    BY <1>5, InboxAssumption DEF Crash, TypeOK
  <2> QED
    BY <1>1, <1>5, <2>1 DEF Crash, TypeOK
<1>6. CASE \E k \in Key, g \in 1 .. MaxGenerations - 1 : ReplayDeadLetter(k, g)
  <2>1. handler' \in [Processing -> Qualification \cup {NoQualification}]
    BY <1>6, Generations DEF ReplayDeadLetter, TypeOK
  <2> QED
    BY <1>1, <1>6, <2>1 DEF ReplayDeadLetter, TypeOK
<1>7. CASE RotateQualification
  <2>1. active' \in Qualification
    BY <1>7, InboxAssumption DEF RotateQualification, TypeOK, Qualification
  <2> QED
    BY <1>1, <1>7, <2>1 DEF RotateQualification, TypeOK
<1>8. CASE Tick
  <2>1. faults' \in 0 .. MaxFaults
    BY <1>8, InboxAssumption DEF Tick, TypeOK
  <2> QED
    BY <1>1, <1>8, <2>1 DEF Tick, TypeOK
<1> QED
  BY <1>2, <1>3, <1>4, <1>5, <1>6, <1>7, <1>8 DEF Next

-----------------------------------------------------------------------------
(* Reception.                                                               *)

\* A message is stored when no other one shares its id or its key, a receipt
\* is given for a stored message, and nothing is forgotten.
LEMMA ReceptionSteps ==
    ASSUME TypeOK, Next
    PROVE  \/ \E m \in Envelope :
                 /\ Existing(m) = {}
                 /\ inbox' = inbox \cup {m}
                 /\ receipts' = receipts \cup {m}
                 /\ processing' = [processing EXCEPT ![<<m.key, 1>>] = InsertedRow]
           \/ /\ inbox' = inbox
              /\ \/ receipts' = receipts
                 \/ \E m \in inbox : receipts' = receipts \cup {m}
<1>1. ASSUME NEW r \in Receiver, NEW envelope \in Envelope, AnswerDuplicate(r, envelope)
      PROVE  /\ inbox' = inbox
             /\ \/ receipts' = receipts
                \/ \E m \in inbox : receipts' = receipts \cup {m}
  BY <1>1 DEF AnswerDuplicate, Existing, Same
<1>2. ASSUME NEW r \in Receiver, Store(r)
      PROVE  \/ \E m \in Envelope :
                   /\ Existing(m) = {}
                   /\ inbox' = inbox \cup {m}
                   /\ receipts' = receipts \cup {m}
                   /\ processing' = [processing EXCEPT ![<<m.key, 1>>] = InsertedRow]
             \/ /\ inbox' = inbox
                /\ \/ receipts' = receipts
                   \/ \E m \in inbox : receipts' = receipts \cup {m}
  <2>1. PICK m \in Envelope : m = call[r]
    BY <1>2, CallTyped DEF Store
  <2>2. CASE /\ Existing(m) = {}
             /\ inbox' = inbox \cup {m}
             /\ receipts' = receipts \cup {m}
             /\ processing' = [processing EXCEPT ![<<m.key, 1>>] = InsertedRow]
    BY <2>2
  <2>3. CASE /\ \E n \in Existing(m) :
                   receipts' = IF Same(n, m) THEN receipts \cup {m} ELSE receipts
             /\ inbox' = inbox
    BY <2>3 DEF Existing, Same
  <2> QED
    BY <1>2, <2>1, <2>2, <2>3 DEF Store
<1>3. ASSUME \/ \E r \in Receiver :
                   \/ \E envelope \in Envelope : LookUp(r, envelope)
                   \/ ReceptionFails(r)
             \/ \E w \in Worker : ClaimNext(w) \/ Acknowledge(w) \/ Reject(w) \/ Crash(w)
             \/ \E k \in Key, g \in 1 .. MaxGenerations - 1 : ReplayDeadLetter(k, g)
             \/ RotateQualification
             \/ Tick
      PROVE  inbox' = inbox /\ receipts' = receipts
  BY <1>3
  DEF LookUp, ReceptionFails, ClaimNext, Acknowledge, Reject, Crash,
      ReplayDeadLetter, RotateQualification, Tick
<1> QED
  BY <1>1, <1>2, <1>3 DEF Next, Receive

LEMMA UniqueStep ==
    ASSUME TypeOK, MessagesAreUnique, receipts \subseteq inbox, Next
    PROVE  MessagesAreUnique' /\ receipts' \subseteq inbox'
<1>1. CASE \E m \in Envelope :
              /\ Existing(m) = {}
              /\ inbox' = inbox \cup {m}
              /\ receipts' = receipts \cup {m}
  BY <1>1 DEF MessagesAreUnique, Existing
<1>2. CASE /\ inbox' = inbox
           /\ \/ receipts' = receipts
              \/ \E m \in inbox : receipts' = receipts \cup {m}
  BY <1>2 DEF MessagesAreUnique
<1> QED
  BY <1>1, <1>2, ReceptionSteps

-----------------------------------------------------------------------------
(* Generations.                                                             *)

\* What the steps of a row keep: that it exists, and its verdict once it has
\* one; a dead letter is given to an open row only.
LEMMA RowKept ==
    ASSUME TypeOK, NEW p \in Processing,
           \/ processing'[p] = processing[p]
           \/ RowClaimed(p) \/ RowSettled(p) \/ RowAged(p)
    PROVE  /\ processing'[p].exists = processing[p].exists
           /\ Settled(processing[p]) =>
                 /\ processing'[p].published = processing[p].published
                 /\ processing'[p].deadLettered = processing[p].deadLettered
           /\ ~processing[p].exists =>
                 /\ processing'[p].published = processing[p].published
                 /\ processing'[p].deadLettered = processing[p].deadLettered
           /\ ~Settled(processing[p]) =>
                 ~(processing'[p].published /\ processing'[p].deadLettered)
<1>0. processing[p] \in Row
  BY DEF TypeOK
<1>1. CASE processing'[p] = processing[p]
  BY <1>1 DEF Settled
<1>2. CASE RowClaimed(p)
  <2>1. PICK w \in Worker, t \in Token : processing'[p] = ClaimedRow(processing[p], w, t)
    BY <1>2 DEF RowClaimed
  <2>2. /\ ClaimedRow(processing[p], w, t).exists = processing[p].exists
        /\ ClaimedRow(processing[p], w, t).published = processing[p].published
        /\ ClaimedRow(processing[p], w, t).deadLettered = processing[p].deadLettered
    BY <1>0, ClaimedRowProperties
  <2> QED
    BY <2>1, <2>2 DEF Settled
<1>3. CASE RowSettled(p)
  <2>1. /\ processing[p].exists /\ ~Settled(processing[p])
        /\ ~processing[p].published /\ ~processing[p].deadLettered
    BY <1>3 DEF RowSettled, Pending, Settled
  <2>2. /\ processing'[p].exists = processing[p].exists
        /\ \/ processing'[p].deadLettered = processing[p].deadLettered
           \/ processing'[p].published = processing[p].published
    <3>1. CASE processing'[p] = PublishedRow(processing[p])
      BY <1>0, <3>1, PublishedRowProperties
    <3>2. CASE \E force \in BOOLEAN :
                  processing'[p] = RejectedRow(processing[p], force, TRUE)
      <4>1. PICK force \in BOOLEAN :
               processing'[p] = RejectedRow(processing[p], force, TRUE)
        BY <3>2
      <4>2. PICK allow \in BOOLEAN : allow = TRUE
        OBVIOUS
      <4>3. /\ RejectedRow(processing[p], force, allow).exists = processing[p].exists
            /\ RejectedRow(processing[p], force, allow).published = processing[p].published
        BY <1>0, RejectedRowProperties
      <4> QED
        BY <4>1, <4>2, <4>3
    <3> QED
      BY <1>3, <3>1, <3>2 DEF RowSettled
  <2> QED
    BY <2>1, <2>2
<1>4. CASE RowAged(p)
  BY <1>0, <1>4, AgedRowProperties DEF RowAged, Settled
<1> QED
  BY <1>1, <1>2, <1>3, <1>4

\* An inserted row was absent and has no verdict.
LEMMA InsertedFirst ==
    ASSUME TypeOK, RowsBelongToMessages, NEW p \in Processing, RowInserted(p)
    PROVE  /\ ~processing[p].exists
           /\ processing'[p].exists
           /\ ~processing'[p].published
           /\ ~processing'[p].deadLettered
<1>1. ~processing[p].exists
  BY DEF RowInserted, RowsBelongToMessages
<1> QED
  BY <1>1 DEF RowInserted, InsertedRow, AbsentRow

LEMMA VerdictStep ==
    ASSUME TypeOK, RowsBelongToMessages, VerdictsExist, OneVerdict, Next
    PROVE  VerdictsExist' /\ OneVerdict'
<1>1. ASSUME NEW p \in Processing
      PROVE  /\ Settled(processing'[p]) => processing'[p].exists
             /\ ~(processing'[p].published /\ processing'[p].deadLettered)
  <2>1. CASE RowInserted(p)
    BY <2>1, InsertedFirst
  <2>2. CASE \/ processing'[p] = processing[p]
             \/ RowClaimed(p) \/ RowSettled(p) \/ RowAged(p)
    BY <2>2, RowKept DEF VerdictsExist, OneVerdict, Settled
  <2> QED
    BY <2>1, <2>2, RowSteps
<1>2. VerdictsExist'
  BY <1>1 DEF VerdictsExist, Settled
<1> QED
  BY <1>1, <1>2 DEF OneVerdict

LEMMA RowsBelongStep ==
    ASSUME TypeOK, RowsBelongToMessages, VerdictsExist, Next
    PROVE  RowsBelongToMessages'
<1>1. \A p \in Processing : processing[p].exists => processing'[p].exists
  BY RowSteps, RowKept, InsertedFirst
<1>2. inbox \subseteq inbox'
  BY ReceptionSteps
<1>3. ASSUME NEW a \in inbox' PROVE processing'[<<a.key, 1>>].exists
  <2>1. CASE a \in inbox
    <3>1. a.key \in Key /\ <<a.key, 1>> \in Processing
      BY <2>1, Generations DEF TypeOK, Envelope
    <3> QED
      BY <2>1, <3>1, <1>1 DEF RowsBelongToMessages
  <2>2. CASE a \notin inbox
    <3>1. PICK m \in Envelope :
             /\ inbox' = inbox \cup {m}
             /\ processing' = [processing EXCEPT ![<<m.key, 1>>] = InsertedRow]
      BY <2>2, ReceptionSteps
    <3>2. a = m /\ m.key \in Key
      BY <2>2, <3>1 DEF Envelope
    <3> QED
      BY <3>1, <3>2, Generations DEF TypeOK, InsertedRow, AbsentRow
  <2> QED
    BY <2>1, <2>2
<1>4. ASSUME NEW p \in Processing, processing'[p].exists
      PROVE  \E a \in inbox' : a.key = p[1]
  <2>1. CASE processing[p].exists
    BY <1>2, <2>1 DEF RowsBelongToMessages
  <2>2. CASE ~processing[p].exists
    <3>1. RowInserted(p)
      BY <1>4, <2>2, RowSteps, RowKept
    <3>2. CASE p[2] - 1 \in 1 .. MaxGenerations - 1
               /\ processing[<<p[1], p[2] - 1>>].deadLettered
      <4>1. PICK q \in Processing : q = <<p[1], p[2] - 1>>
        BY <3>2, Generations
      <4>2. processing[q].exists /\ q[1] = p[1]
        BY <3>2, <4>1 DEF VerdictsExist, Settled
      <4> QED
        BY <1>2, <4>2 DEF RowsBelongToMessages
    <3> QED
      BY <3>1, <3>2 DEF RowInserted
  <2> QED
    BY <2>1, <2>2
<1> QED
  BY <1>3, <1>4 DEF RowsBelongToMessages

LEMMA GenerationStep ==
    ASSUME TypeOK, RowsBelongToMessages, VerdictsExist, OlderAreDead, Next
    PROVE  OlderAreDead'
<1> SUFFICES ASSUME NEW p \in Processing, NEW q \in Processing,
                    p[1] = q[1], p[2] < q[2], processing'[q].exists
             PROVE  processing'[p].deadLettered
  BY DEF OlderAreDead
<1>1. p[2] \in Nat /\ q[2] \in Nat /\ p[2] >= 1 /\ q[2] # 1
  BY Generations, InboxAssumption
<1>2. processing[p].deadLettered
  <2>1. CASE processing[q].exists
    BY <2>1 DEF OlderAreDead
  <2>2. CASE ~processing[q].exists
    <3>1. RowInserted(q)
      BY <2>2, RowSteps, RowKept
    <3>2. /\ q[2] - 1 \in 1 .. MaxGenerations - 1
          /\ processing[<<q[1], q[2] - 1>>].deadLettered
      BY <3>1, <1>1 DEF RowInserted
    <3>3. PICK n \in 1 .. MaxGenerations - 1 : n = q[2] - 1
      BY <3>2
    <3>4. PICK r \in Processing : r = <<q[1], n>> /\ r[1] = q[1] /\ r[2] = n
      BY <3>3, Generations
    <3>5. processing[r].deadLettered /\ processing[r].exists
      BY <3>2, <3>3, <3>4 DEF VerdictsExist, Settled
    <3>6. CASE p[2] = n
      BY <3>4, <3>5, <3>6, Generations
    <3>7. CASE p[2] # n
      <4>1. p[2] < r[2]
        BY <3>3, <3>4, <3>7, <1>1
      <4> QED
        BY <3>4, <3>5, <4>1 DEF OlderAreDead
    <3> QED
      BY <3>6, <3>7
  <2> QED
    BY <2>1, <2>2
<1>3. Settled(processing[p]) /\ processing[p].exists
  BY <1>2 DEF Settled, VerdictsExist
<1>4. ~RowInserted(p)
  BY <1>3, InsertedFirst
<1>5. processing'[p].deadLettered = processing[p].deadLettered
  BY <1>3, <1>4, RowSteps, RowKept
<1> QED
  BY <1>2, <1>5

-----------------------------------------------------------------------------
(* The theorems.                                                            *)

LEMMA IInvInit == Init => IInv
<1> SUFFICES ASSUME Init PROVE IInv
  OBVIOUS
<1>1. TypeOK
  BY RowTyped, InboxAssumption DEF Init, TypeOK, Qualification
<1>2. /\ inbox = {} /\ receipts = {}
      /\ \A p \in Processing :
            ~processing[p].exists /\ ~processing[p].published /\ ~processing[p].deadLettered
  BY DEF Init, AbsentRow
<1>3. MessagesAreUnique /\ RowsBelongToMessages /\ VerdictsExist /\ OneVerdict
  BY <1>2 DEF MessagesAreUnique, RowsBelongToMessages, VerdictsExist, OneVerdict, Settled
<1>4. OlderAreDead
  BY <1>2 DEF OlderAreDead
<1> QED
  BY <1>1, <1>2, <1>3, <1>4 DEF IInv

LEMMA IInvStep == IInv /\ [Next]_vars => IInv'
<1> SUFFICES ASSUME IInv, [Next]_vars PROVE IInv'
  OBVIOUS
<1>1. CASE Next
  BY <1>1, TypeStep, UniqueStep, RowsBelongStep, VerdictStep, GenerationStep DEF IInv
<1>2. CASE UNCHANGED vars
  <2>1. UNCHANGED <<inbox, call, receipts, processing, handler, active, claim, faults>>
    BY <1>2 DEF vars
  <2>2. TypeOK' /\ MessagesAreUnique' /\ RowsBelongToMessages'
    BY <2>1 DEF IInv, TypeOK, MessagesAreUnique, RowsBelongToMessages
  <2>3. VerdictsExist' /\ OneVerdict' /\ OlderAreDead'
    BY <2>1 DEF IInv, VerdictsExist, OneVerdict, OlderAreDead, Settled
  <2> QED
    BY <2>1, <2>2, <2>3 DEF IInv
<1> QED
  BY <1>1, <1>2

LEMMA IInvAlways == Spec => []IInv
  BY IInvInit, IInvStep, PTL DEF Spec

LEMMA OneIsOpen == IInv => TypeOK /\ OneOpenGeneration
<1> SUFFICES ASSUME IInv, NEW k \in Key, NEW g \in 1 .. MaxGenerations - 1,
                    processing[<<k, g + 1>>].exists
             PROVE  processing[<<k, g>>].deadLettered
  BY DEF IInv, OneOpenGeneration
<1>1. <<k, g>> \in Processing /\ <<k, g + 1>> \in Processing
  BY Generations
<1>2. g < g + 1
  OBVIOUS
<1> QED
  BY <1>1, <1>2 DEF IInv, OlderAreDead

\* A settled generation is neither inserted, claimed nor settled again.
LEMMA SettledRowKept ==
    ASSUME IInv, [Next]_vars, NEW p \in Processing, Settled(processing[p])
    PROVE  processing'[p] \in {processing[p], AgedRow(processing[p])}
<1>1. CASE UNCHANGED vars
  BY <1>1 DEF vars
<1>2. CASE Next
  <2>1. ~RowInserted(p)
    BY InsertedFirst DEF IInv, VerdictsExist
  <2>2. ~RowClaimed(p) /\ ~RowSettled(p)
    BY DEF RowClaimed, RowSettled, Claimable, Pending, Settled
  <2> QED
    BY <1>2, <2>1, <2>2, RowSteps DEF IInv, RowAged
<1> QED
  BY <1>1, <1>2

\* No two receipts contradict each other, and what has a receipt is stored with
\* its first generation (receive, _existing_message and the unique constraints).
THEOREM ReceiptsStand == Spec => []ReceiptStands
<1>1. IInv => ReceiptStands
  BY DEF IInv, ReceiptStands, ReceiptsAgree, ReceiptIsDurable, MessagesAreUnique,
         RowsBelongToMessages
<1> QED
  BY <1>1, IInvAlways, PTL

\* All generations of a message but the newest are dead-lettered
\* (replay_dead_letter).
THEOREM GenerationsAreExclusive == Spec => [](TypeOK /\ OneOpenGeneration)
  BY OneIsOpen, IInvAlways, PTL

\* A message is consumed in one generation at most, however often it is
\* replayed (acknowledge, replay_dead_letter).
THEOREM ConsumedOnce == Spec => []OneConsumption
<1>1. IInv => OneConsumption
  <2> SUFFICES ASSUME IInv, NEW p \in Processing, NEW q \in Processing,
                      p[1] = q[1], processing[p].published, processing[q].published
               PROVE  p = q
    BY DEF OneConsumption
  <2>1. /\ processing[p].exists /\ ~processing[p].deadLettered
        /\ processing[q].exists /\ ~processing[q].deadLettered
    BY DEF IInv, VerdictsExist, OneVerdict, Settled
  <2>2. ~(p[2] < q[2]) /\ ~(q[2] < p[2])
    BY <2>1 DEF IInv, OlderAreDead
  <2>3. p[2] \in Int /\ q[2] \in Int
    BY Generations
  <2> QED
    BY <2>2, <2>3, Generations
<1> QED
  BY <1>1, IInvAlways, PTL

\* Neither a late handler nor a replay changes a verdict (_locked_processing,
\* _require_processing_owner).
THEOREM VerdictsAreKept == Spec => VerdictsAreFinal
<1>1. ASSUME IInv, [Next]_vars
      PROVE  [\A p \in Processing :
                 Settled(processing[p]) =>
                    /\ processing'[p].published = processing[p].published
                    /\ processing'[p].deadLettered = processing[p].deadLettered]_vars
  <2>1. CASE Next
    <3>1. ASSUME NEW p \in Processing, Settled(processing[p])
          PROVE  /\ processing'[p].published = processing[p].published
                 /\ processing'[p].deadLettered = processing[p].deadLettered
      <4>1. ~RowInserted(p)
        BY <1>1, <3>1, InsertedFirst DEF IInv, VerdictsExist
      <4> QED
        BY <1>1, <2>1, <3>1, <4>1, RowSteps, RowKept DEF IInv
    <3> QED
      BY <3>1
  <2> QED
    BY <1>1, <2>1
<1> QED
  BY <1>1, IInvAlways, PTL DEF Spec, VerdictsAreFinal

-----------------------------------------------------------------------------
(* Revisions and their reviews: what passport and risk register share.      *)

\* A sequence given element by element.
LEMMA Mapped ==
    ASSUME NEW S, NEW n \in Nat, NEW f \in [1 .. n -> S]
    PROVE  f \in Seq(S) /\ Len(f) = n /\ DOMAIN f = 1 .. n
  <1>1. f \in Seq(S)
    BY SeqDef
  <1> QED BY <1>1, LenProperties

\* A sequence of the length of another one.
LEMMA Remapped ==
    ASSUME NEW S, NEW T, NEW s \in Seq(S), NEW f \in [DOMAIN s -> T]
    PROVE  f \in Seq(T) /\ Len(f) = Len(s)
  <1>1. DOMAIN s = 1 .. Len(s) /\ Len(s) \in Nat
    BY LenProperties
  <1> QED BY <1>1, Mapped

\* One more element.
LEMMA Longer ==
    ASSUME NEW S, NEW s \in Seq(S), NEW e \in S
    PROVE  /\ Append(s, e) \in Seq(S)
           /\ Append(s, e) # <<>>
           /\ Len(Append(s, e)) = Len(s) + 1
           /\ Append(s, e)[Len(s) + 1] = e
           /\ \A i \in 1 .. Len(s) : Append(s, e)[i] = s[i]
  <1>1. /\ Append(s, e) \in Seq(S)
        /\ Len(Append(s, e)) = Len(s) + 1
        /\ Append(s, e)[Len(s) + 1] = e
        /\ \A i \in 1 .. Len(s) : Append(s, e)[i] = s[i]
    BY AppendProperties
  <1>2. Append(s, e) # <<>>
    BY AppendProperties
  <1> QED BY <1>1, <1>2

\* A sequence is empty or has a last element.
LEMMA HasLast ==
    ASSUME NEW S, NEW s \in Seq(S)
    PROVE  /\ Len(s) \in Nat /\ DOMAIN s = 1 .. Len(s)
           /\ s # <<>> <=> Len(s) \in 1 .. Len(s)
           /\ s # <<>> => s[Len(s)] \in S
           /\ \A i \in 1 .. Len(s) : s[i] \in S
  <1>1. Len(s) \in Nat /\ DOMAIN s = 1 .. Len(s) /\ s \in [1 .. Len(s) -> S]
    BY LenProperties
  <1>2. s # <<>> <=> Len(s) \in 1 .. Len(s)
    BY <1>1, EmptySeq
  <1> QED BY <1>1, <1>2

ReviewStatus == {"PENDING", "APPROVED", "REJECTED", "SUPERSEDED"}

\* Every revision of every subject has one review, only the newest revision may
\* be decided, and it is decided once.
ReviewedOnce(K, rows, statuses, decisions) ==
    /\ statuses \in [K -> Seq(ReviewStatus)]
    /\ \A k \in K : Len(statuses[k]) = Len(rows[k])
    /\ \A k \in K : \A i \in 1 .. Len(rows[k]) - 1 : statuses[k][i] = "SUPERSEDED"
    /\ \A a \in decisions : \E k \in K : \E n \in 1 .. Len(rows[k]) :
          a.of = <<k, n>> /\ statuses[k][n] # "PENDING"
    /\ \A a, b \in decisions : a.of = b.of => a = b

\* The review of the revision before is superseded, and the next is pending.
LEMMA SubmittedReviews ==
    ASSUME NEW K, NEW R, NEW rows \in [K -> Seq(R)], NEW statuses, NEW decisions,
           ReviewedOnce(K, rows, statuses, decisions),
           NEW k \in K, NEW row \in R, NEW settled,
           settled = [i \in DOMAIN statuses[k] |->
               IF i = Len(statuses[k]) THEN "SUPERSEDED" ELSE statuses[k][i]]
    PROVE  /\ [rows EXCEPT ![k] = Append(@, row)] \in [K -> Seq(R)]
           /\ ReviewedOnce(K, [rows EXCEPT ![k] = Append(@, row)],
                           [statuses EXCEPT ![k] = Append(settled, "PENDING")], decisions)
  <1> DEFINE newRows == [rows EXCEPT ![k] = Append(@, row)]
             newStatuses == [statuses EXCEPT ![k] = Append(settled, "PENDING")]
  <1>1. /\ rows[k] \in Seq(R) /\ statuses[k] \in Seq(ReviewStatus)
        /\ Len(rows[k]) \in Nat /\ Len(statuses[k]) = Len(rows[k])
    BY LenProperties DEF ReviewedOnce
  <1>2. /\ Append(rows[k], row) \in Seq(R)
        /\ Len(Append(rows[k], row)) = Len(rows[k]) + 1
    BY <1>1, Longer
  <1>3. /\ settled \in Seq(ReviewStatus) /\ Len(settled) = Len(rows[k])
        /\ \A i \in 1 .. Len(rows[k]) : settled[i] = "SUPERSEDED"
    <2>1. settled \in [DOMAIN statuses[k] -> ReviewStatus]
      <3>1. \A i \in DOMAIN statuses[k] : statuses[k][i] \in ReviewStatus
        BY <1>1, HasLast
      <3> QED BY <3>1 DEF ReviewStatus
    <2>2. settled \in Seq(ReviewStatus) /\ Len(settled) = Len(rows[k])
      BY <1>1, <2>1, Remapped
    <2>3. DOMAIN statuses[k] = 1 .. Len(rows[k])
      BY <1>1, LenProperties
    <2>4. \A i \in 1 .. Len(rows[k]) : i = Len(rows[k]) \/ i \in 1 .. Len(rows[k]) - 1
      BY <1>1
    <2>5. \A i \in 1 .. Len(rows[k]) : settled[i] = "SUPERSEDED"
      BY <1>1, <2>3, <2>4 DEF ReviewedOnce
    <2> QED BY <2>2, <2>5
  <1>4. /\ Append(settled, "PENDING") \in Seq(ReviewStatus)
        /\ Len(Append(settled, "PENDING")) = Len(rows[k]) + 1
        /\ \A i \in 1 .. Len(rows[k]) : Append(settled, "PENDING")[i] = "SUPERSEDED"
    <2>1. "PENDING" \in ReviewStatus
      BY DEF ReviewStatus
    <2> QED BY <1>3, <2>1, Longer
  <1>5. /\ newRows \in [K -> Seq(R)] /\ newRows[k] = Append(rows[k], row)
        /\ newStatuses \in [K -> Seq(ReviewStatus)]
        /\ newStatuses[k] = Append(settled, "PENDING")
        /\ \A j \in K : j # k => newRows[j] = rows[j] /\ newStatuses[j] = statuses[j]
    BY <1>2, <1>4 DEF ReviewedOnce
  <1> HIDE DEF newRows, newStatuses
  <1>6. \A j \in K : Len(newStatuses[j]) = Len(newRows[j])
    BY <1>2, <1>4, <1>5 DEF ReviewedOnce
  <1>7. \A j \in K : \A i \in 1 .. Len(newRows[j]) - 1 : newStatuses[j][i] = "SUPERSEDED"
    <2> SUFFICES ASSUME NEW j \in K, NEW i \in 1 .. Len(newRows[j]) - 1
                 PROVE  newStatuses[j][i] = "SUPERSEDED"
      OBVIOUS
    <2>1. CASE j = k
      <3>1. i \in 1 .. Len(rows[k])
        BY <1>1, <1>2, <1>5, <2>1
      <3> QED BY <1>4, <1>5, <2>1, <3>1
    <2>2. CASE j # k
      BY <1>5, <2>2 DEF ReviewedOnce
    <2> QED BY <2>1, <2>2
  <1>8. ASSUME NEW a \in decisions
        PROVE  \E j \in K : \E n \in 1 .. Len(newRows[j]) :
                   a.of = <<j, n>> /\ newStatuses[j][n] # "PENDING"
    <2>1. PICK j \in K : \E n \in 1 .. Len(rows[j]) : a.of = <<j, n>> /\ statuses[j][n] # "PENDING"
      BY DEF ReviewedOnce
    <2>0. PICK n \in 1 .. Len(rows[j]) : a.of = <<j, n>> /\ statuses[j][n] # "PENDING"
      BY <2>1
    <2>2. CASE j = k
      <3>1. newStatuses[j][n] = "SUPERSEDED"
        BY <1>4, <1>5, <2>2
      <3>2. Len(newRows[j]) = Len(rows[k]) + 1
        BY <1>2, <1>5, <2>2
      <3>3. n \in 1 .. Len(newRows[j])
        BY <1>1, <2>2, <3>2
      <3> QED BY <2>0, <3>1, <3>3
    <2>3. CASE j # k
      BY <1>5, <2>0, <2>3
    <2> QED BY <2>2, <2>3
  <1> QED BY <1>5, <1>6, <1>7, <1>8 DEF ReviewedOnce, newRows, newStatuses

\* The newest revision, n, is decided while its review is pending.
Decides(K, R, rows, newRows, statuses, newStatuses, k, n, row, verdict, entry) ==
    /\ k \in K /\ rows[k] # <<>> /\ n = Len(rows[k]) /\ statuses[k][n] = "PENDING"
    /\ row \in R /\ verdict \in {"APPROVED", "REJECTED"} /\ entry.of = <<k, n>>
    /\ newRows = [rows EXCEPT ![k] = [@ EXCEPT ![n] = row]]
    /\ newStatuses = [statuses EXCEPT ![k] = [@ EXCEPT ![n] = verdict]]

LEMMA DecidedReviews ==
    ASSUME NEW K, NEW R, NEW rows \in [K -> Seq(R)], NEW newRows,
           NEW statuses, NEW newStatuses, NEW decisions,
           NEW k, NEW n, NEW row, NEW verdict, NEW entry,
           ReviewedOnce(K, rows, statuses, decisions),
           Decides(K, R, rows, newRows, statuses, newStatuses, k, n, row, verdict, entry)
    PROVE  /\ newRows \in [K -> Seq(R)]
           /\ ReviewedOnce(K, newRows, newStatuses, decisions \cup {entry})
  <1>0. /\ k \in K /\ rows[k] # <<>> /\ n = Len(rows[k]) /\ statuses[k][n] = "PENDING"
        /\ row \in R /\ verdict \in {"APPROVED", "REJECTED"} /\ entry.of = <<k, n>>
        /\ newRows = [rows EXCEPT ![k] = [@ EXCEPT ![n] = row]]
        /\ newStatuses = [statuses EXCEPT ![k] = [@ EXCEPT ![n] = verdict]]
    BY DEF Decides
  <1>1. /\ rows[k] \in Seq(R) /\ statuses[k] \in Seq(ReviewStatus)
        /\ n \in Nat /\ n \in 1 .. n /\ Len(statuses[k]) = n
    BY <1>0, HasLast DEF ReviewedOnce
  <1>2. /\ [rows[k] EXCEPT ![n] = row] \in Seq(R)
        /\ Len([rows[k] EXCEPT ![n] = row]) = n
    BY <1>0, <1>1, ExceptSeq
  <1>3. /\ [statuses[k] EXCEPT ![n] = verdict] \in Seq(ReviewStatus)
        /\ Len([statuses[k] EXCEPT ![n] = verdict]) = n
        /\ \A i \in 1 .. n : [statuses[k] EXCEPT ![n] = verdict][i] =
                                 IF i = n THEN verdict ELSE statuses[k][i]
    <2>1. verdict \in ReviewStatus
      BY <1>0 DEF ReviewStatus
    <2> QED BY <1>0, <1>1, <2>1, ExceptSeq
  <1>4. /\ newRows \in [K -> Seq(R)] /\ newRows[k] = [rows[k] EXCEPT ![n] = row]
        /\ newStatuses \in [K -> Seq(ReviewStatus)]
        /\ newStatuses[k] = [statuses[k] EXCEPT ![n] = verdict]
        /\ \A j \in K : j # k => newRows[j] = rows[j] /\ newStatuses[j] = statuses[j]
    BY <1>0, <1>2, <1>3 DEF ReviewedOnce
  <1>5. \A j \in K : Len(newStatuses[j]) = Len(newRows[j]) /\ Len(newRows[j]) = Len(rows[j])
    BY <1>0, <1>2, <1>3, <1>4 DEF ReviewedOnce
  <1>6. \A j \in K : \A i \in 1 .. Len(newRows[j]) - 1 : newStatuses[j][i] = "SUPERSEDED"
    <2> SUFFICES ASSUME NEW j \in K, NEW i \in 1 .. Len(rows[j]) - 1
                 PROVE  newStatuses[j][i] = "SUPERSEDED"
      BY <1>0, <1>5
    <2>1. CASE j = k
      BY <1>0, <1>1, <1>3, <1>4, <2>1 DEF ReviewedOnce
    <2>2. CASE j # k
      BY <1>0, <1>4, <2>2 DEF ReviewedOnce
    <2> QED BY <1>0, <2>1, <2>2
  <1>7. ASSUME NEW a \in decisions
        PROVE  a.of # <<k, n>> /\ \E j \in K : \E i \in 1 .. Len(newRows[j]) :
                   a.of = <<j, i>> /\ newStatuses[j][i] # "PENDING"
    <2>1. PICK j \in K : \E i \in 1 .. Len(rows[j]) : a.of = <<j, i>> /\ statuses[j][i] # "PENDING"
      BY DEF ReviewedOnce
    <2>0. PICK i \in 1 .. Len(rows[j]) : a.of = <<j, i>> /\ statuses[j][i] # "PENDING"
      BY <1>0, <2>1
    <2>2. CASE j = k
      <3>1. newStatuses[j][i] # "PENDING"
        BY <1>0, <1>1, <1>3, <1>4, <2>0, <2>2
      <3> QED BY <1>0, <1>5, <2>0, <2>2, <3>1
    <2>3. CASE j # k
      BY <1>0, <1>4, <2>0, <2>3
    <2> QED BY <1>0, <2>2, <2>3
  <1>8. n \in 1 .. Len(newRows[k]) /\ newStatuses[k][n] # "PENDING"
    BY <1>0, <1>1, <1>3, <1>4, <1>5
  <1>9. \A a, b \in decisions \cup {entry} : a.of = b.of => a = b
    BY <1>0, <1>7 DEF ReviewedOnce
  <1>10. \A a \in decisions \cup {entry} : \E j \in K : \E i \in 1 .. Len(newRows[j]) :
                   a.of = <<j, i>> /\ newStatuses[j][i] # "PENDING"
    BY <1>0, <1>7, <1>8
  <1>11. ReviewedOnce(K, newRows, newStatuses, decisions \cup {entry})
    BY <1>0, <1>4, <1>5, <1>6, <1>9, <1>10 DEF ReviewedOnce
  <1> QED BY <1>0, <1>4, <1>11 

\* Every review is superseded, and no revision is added.
LEMMA SupersededReviews ==
    ASSUME NEW K, NEW R, NEW rows \in [K -> Seq(R)], NEW statuses, NEW decisions,
           ReviewedOnce(K, rows, statuses, decisions),
           NEW newRows \in [K -> Seq(R)], \A k \in K : Len(newRows[k]) = Len(rows[k]),
           NEW newStatuses,
           newStatuses = [k \in K |-> [i \in DOMAIN statuses[k] |-> "SUPERSEDED"]]
    PROVE  ReviewedOnce(K, newRows, newStatuses, decisions)
  <1>1. ASSUME NEW k \in K
        PROVE  /\ newStatuses[k] \in Seq(ReviewStatus) /\ Len(newStatuses[k]) = Len(rows[k])
               /\ \A i \in 1 .. Len(rows[k]) : newStatuses[k][i] = "SUPERSEDED"
    <2>1. statuses[k] \in Seq(ReviewStatus) /\ Len(statuses[k]) = Len(rows[k])
      BY DEF ReviewedOnce
    <2>2. newStatuses[k] \in [DOMAIN statuses[k] -> ReviewStatus]
      BY DEF ReviewStatus
    <2>3. DOMAIN statuses[k] = 1 .. Len(rows[k])
      BY <2>1, LenProperties
    <2>4. newStatuses[k] \in Seq(ReviewStatus) /\ Len(newStatuses[k]) = Len(rows[k])
      BY <2>1, <2>2, Remapped
    <2>5. \A i \in 1 .. Len(rows[k]) : newStatuses[k][i] = "SUPERSEDED"
      BY <2>1, <2>3
    <2> QED BY <2>4, <2>5
  <1>2. newStatuses \in [K -> Seq(ReviewStatus)]
    BY <1>1
  <1>3. \A k \in K : \A i \in 1 .. Len(newRows[k]) - 1 : newStatuses[k][i] = "SUPERSEDED"
    <2> SUFFICES ASSUME NEW k \in K, NEW i \in 1 .. Len(rows[k]) - 1
                 PROVE  newStatuses[k][i] = "SUPERSEDED"
      OBVIOUS
    <2>1. Len(rows[k]) \in Nat
      BY LenProperties
    <2>2. i \in 1 .. Len(rows[k])
      BY <2>1
    <2> QED BY <1>1, <2>2
  <1>4. \A a \in decisions : \E k \in K : \E n \in 1 .. Len(newRows[k]) :
            a.of = <<k, n>> /\ newStatuses[k][n] # "PENDING"
    BY <1>1 DEF ReviewedOnce
  <1> QED BY <1>1, <1>2, <1>3, <1>4 DEF ReviewedOnce

-----------------------------------------------------------------------------
(* Evidence.                                                                *)

\* A derivation rests on its observations in the way that its kind says.
Justified(d, seen) ==
    /\ d.from \subseteq seen
    /\ \E o \in d.from : d.value = o.value
    /\ d.kind = "agreement" => Facts!Cardinality({Domain[o.by] : o \in d.from}) = 2
    /\ d.kind # "agreement" => \A o \in d.from : o.by # d.by
    /\ d.kind = "review" => \E o \in Facts!Manual : d.from = {o}

\* A conflict is settled by one derivation and its record, or not at all.
Unsettled(s, rows) == \A d \in rows : d.from # s
SettledBy(s, rows, d, decisions, by) ==
    /\ d \in rows /\ \A e \in rows : e.from = s <=> e = d
    /\ [of |-> s, decision |-> "APPROVED", by |-> d.by] \in decisions
    /\ d.by # by
ConflictStands(s, row, rows, decisions) ==
    IF row # NoRow /\ row.status = "VERIFIED"
        THEN \E d \in rows : SettledBy(s, rows, d, decisions, row.by)
        ELSE Unsettled(s, rows)

\* A reading is decided once, and its task shows it.
ReadingsDecidedOnce(decisions, rows) ==
    \A o \in Facts!Manual : \A r \in decisions : r.of = {o} =>
        /\ rows[o] # NoRow /\ rows[o].status # "PENDING"
        /\ \A q \in decisions : q.of = {o} => q = r

\* The inductive invariant.
EvidenceInv ==
    /\ IsFiniteSet(observed)
    /\ evidencePolicy \in Policy /\ docset \in 1 .. MaxSets /\ revision \in 1 .. MaxSets
    /\ reviewTasks \in [Facts!Manual -> ReviewTask \cup {NoRow}]
    /\ conflicts \in [Facts!ConflictId -> ConflictRow \cup {NoRow}]
    /\ \A d \in derived : Justified(d, observed)
    /\ \A s \in Facts!ConflictId : ConflictStands(s, conflicts[s], derived, records)
    /\ ReadingsDecidedOnce(records, reviewTasks)

LEMMA EvidenceInitInv ==
    ASSUME EvidenceConstants, Facts!EvidenceInit
    PROVE  EvidenceInv
  <1>1. /\ observed = {} /\ derived = {} /\ records = {}
        /\ reviewTasks = [o \in Facts!Manual |-> NoRow]
        /\ conflicts = [c \in Facts!ConflictId |-> NoRow]
        /\ evidencePolicy \in Policy /\ docset = 1 /\ revision = 1
    BY DEF Facts!EvidenceInit
  <1>2. IsFiniteSet(observed)
    BY <1>1, FS_EmptySet
  <1>3. \A s \in Facts!ConflictId : ConflictStands(s, conflicts[s], derived, records)
    BY <1>1 DEF ConflictStands, Unsettled
  <1>4. ReadingsDecidedOnce(records, reviewTasks)
    BY <1>1 DEF ReadingsDecidedOnce
  <1>5. docset \in 1 .. MaxSets /\ revision \in 1 .. MaxSets
    BY <1>1 DEF EvidenceConstants
  <1> QED BY <1>1, <1>2, <1>3, <1>4, <1>5 DEF EvidenceInv

\* What disagrees is no single observation, and does not agree.
LEMMA ConflictsDisagree ==
    ASSUME NEW s \in Facts!ConflictId
    PROVE  /\ \E x, y \in s : x.value # y.value
           /\ \A o : s # {o}
           /\ \A o \in s : o \in Facts!Automatic
  <1>1. PICK x \in Facts!Automatic, y \in Facts!Automatic : s = {x, y}
    BY DEF Facts!ConflictId
  <1>2. \E a, b \in s : a.value # b.value
    BY DEF Facts!ConflictId
  <1> QED BY <1>1, <1>2

\* Observations are only added.
LEMMA StillJustified ==
    ASSUME NEW d, NEW seen, NEW more, Justified(d, seen), seen \subseteq more
    PROVE  Justified(d, more)
  BY DEF Justified

\* A derivation from something else leaves a conflict as it is.
LEMMA ConflictLeft ==
    ASSUME NEW s, NEW row, NEW rows, NEW decisions, NEW newRows, NEW newDecisions,
           ConflictStands(s, row, rows, decisions), decisions \subseteq newDecisions,
           NEW d, newRows \in {rows, rows \cup {d}}, d.from # s
    PROVE  ConflictStands(s, row, newRows, newDecisions)
  <1>1. CASE row # NoRow /\ row.status = "VERIFIED"
    <2>1. PICK e \in rows : SettledBy(s, rows, e, decisions, row.by)
      BY <1>1 DEF ConflictStands
    <2>2. SettledBy(s, newRows, e, newDecisions, row.by)
      BY <2>1 DEF SettledBy
    <2>3. e \in newRows
      BY <2>2 DEF SettledBy
    <2> QED BY <1>1, <2>2, <2>3 DEF ConflictStands
  <1>2. CASE ~ (row # NoRow /\ row.status = "VERIFIED")
    BY <1>2 DEF ConflictStands, Unsettled
  <1> QED BY <1>1, <1>2

LEMMA RecordAutomaticInv ==
    ASSUME EvidenceInv, NEW a \in Adapter, NEW v \in Value, Facts!RecordAutomatic(a, v)
    PROVE  EvidenceInv'
  <1>1. /\ observed' = observed \cup {[by |-> a, value |-> v, revision |-> revision]}
        /\ UNCHANGED <<derived, reviewTasks, records, conflicts, evidencePolicy, docset, revision>>
    BY DEF Facts!RecordAutomatic
  <1>2. IsFiniteSet(observed')
    BY <1>1, FS_AddElement DEF EvidenceInv
  <1>3. \A d \in derived : Justified(d, observed')
    BY <1>1, StillJustified DEF EvidenceInv
  <1> QED BY <1>1, <1>2, <1>3
          DEF EvidenceInv

LEMMA RecordManualInv ==
    ASSUME EvidenceInv, NEW p \in Person, NEW v \in Value, Facts!RecordManual(p, v)
    PROVE  EvidenceInv'
  <1> DEFINE o == [by |-> p, value |-> v, revision |-> revision, policy |-> evidencePolicy]
  <1>1. /\ observed' = observed \cup {o}
        /\ reviewTasks' = [reviewTasks EXCEPT ![o] = IF @ = NoRow THEN Facts!NewTask(p) ELSE @]
        /\ UNCHANGED <<derived, records, conflicts, evidencePolicy, docset, revision>>
    BY DEF Facts!RecordManual
  <1>2. o \in Facts!Manual
    BY DEF EvidenceInv, Facts!Manual
  <1> HIDE DEF o
  <1>3. IsFiniteSet(observed')
    BY <1>1, FS_AddElement DEF EvidenceInv
  <1>4. \A d \in derived : Justified(d, observed')
    BY <1>1, StillJustified DEF EvidenceInv
  <1>5. reviewTasks' \in [Facts!Manual -> ReviewTask \cup {NoRow}]
    <2>1. Facts!NewTask(p) \in ReviewTask
      BY DEF EvidenceInv, ReviewTask, Facts!NewTask
    <2> QED BY <1>1, <1>2, <2>1 DEF EvidenceInv
  <1>6. ReadingsDecidedOnce(records, reviewTasks')
    BY <1>1, <1>2 DEF EvidenceInv, ReadingsDecidedOnce
  <1> QED BY <1>1, <1>3, <1>4, <1>5, <1>6
          DEF EvidenceInv

LEMMA DecideManualInv ==
    ASSUME EvidenceConstants, EvidenceInv, NEW p \in Person, NEW o \in observed \cap Facts!Manual,
           NEW ruling \in {"APPROVED", "REJECTED"}, Facts!DecideManual(p, o, ruling)
    PROVE  EvidenceInv'
  <1> DEFINE d == [from |-> {o}, value |-> o.value, by |-> p, docset |-> docset,
                   kind |-> "review"]
             r == [of |-> {o}, decision |-> ruling, by |-> p]
  <1>1. /\ reviewTasks[o] # NoRow /\ reviewTasks[o].status = "PENDING" /\ p # o.by
        /\ reviewTasks' = [reviewTasks EXCEPT ![o].status = ruling]
        /\ records' = records \cup {r}
        /\ derived' \in {derived, derived \cup {d}}
        /\ UNCHANGED <<observed, conflicts, evidencePolicy, docset, revision>>
    BY DEF Facts!DecideManual, Facts!Reviewable
  <1>2. Justified(d, observed)
    BY <1>1 DEF Justified
  <1>3. d.from = {o} /\ r.of = {o}
    OBVIOUS
  <1> HIDE DEF d, r
  <1>4. \A e \in derived' : Justified(e, observed)
    BY <1>1, <1>2 DEF EvidenceInv
  <1>5. ASSUME NEW s \in Facts!ConflictId
        PROVE  ConflictStands(s, conflicts[s], derived', records')
    <2>1. s # {o}
      BY ConflictsDisagree
    <2>2. ConflictStands(s, conflicts[s], derived, records)
      BY DEF EvidenceInv
    <2>3. records \subseteq records' /\ d.from # s
      BY <1>1, <1>3, <2>1
    <2> QED BY <1>1, <2>2, <2>3, ConflictLeft
  <1>6. reviewTasks[o] \in ReviewTask
    BY <1>1 DEF EvidenceInv
  <1>7. /\ [reviewTasks[o] EXCEPT !.status = ruling] \in ReviewTask
        /\ [reviewTasks[o] EXCEPT !.status = ruling].status = ruling
    BY <1>6 DEF ReviewTask
  <1>8. /\ reviewTasks' \in [Facts!Manual -> ReviewTask \cup {NoRow}]
        /\ reviewTasks'[o] # NoRow /\ reviewTasks'[o].status # "PENDING"
        /\ \A q \in Facts!Manual : q # o => reviewTasks'[q] = reviewTasks[q]
    BY <1>1, <1>7 DEF EvidenceInv, EvidenceConstants
  <1>9. ReadingsDecidedOnce(records', reviewTasks')
    <2> SUFFICES ASSUME NEW q \in Facts!Manual, NEW e \in records', e.of = {q}
                 PROVE  /\ reviewTasks'[q] # NoRow /\ reviewTasks'[q].status # "PENDING"
                        /\ \A f \in records' : f.of = {q} => f = e
      BY DEF ReadingsDecidedOnce
    <2>1. CASE q = o
      <3>1. \A f \in records : f.of # {o}
        BY <1>1 DEF EvidenceInv, ReadingsDecidedOnce
      <3>2. \A f \in records' : f.of = {q} => f = r
        BY <1>1, <2>1, <3>1
      <3> QED BY <1>8, <2>1, <3>2
    <2>2. CASE q # o
      <3>1. \A f \in records' : f.of = {q} => f \in records
        BY <1>1, <1>3, <2>2
      <3> QED BY <1>8, <2>2, <3>1 DEF EvidenceInv, ReadingsDecidedOnce
    <2> QED BY <2>1, <2>2
  <1> QED BY <1>1, <1>4, <1>5, <1>8, <1>9
          DEF EvidenceInv

LEMMA PairCardinality ==
    ASSUME NEW a, NEW b, a # b
    PROVE  Cardinality({a} \cup {b}) = 2
  <1>1. IsFiniteSet({a}) /\ Cardinality({a}) = 1 /\ b \notin {a}
    BY FS_Singleton
  <1>2. Cardinality({a} \cup {b}) = Cardinality({a}) + 1
    BY <1>1, FS_AddElement
  <1> QED BY <1>1, <1>2

\* Two of different domains.
LEMMA TwoDomains ==
    ASSUME NEW s, IsFiniteSet(s), Facts!Cardinality(s) = 2, Facts!Independent(s)
    PROVE  s # {} /\ Facts!Cardinality({Domain[o.by] : o \in s}) = 2
  <1>0. \A S : Facts!Cardinality(S) = Cardinality(S)
    BY DEF Facts!Cardinality, Cardinality
  <1>1. s # {}
    BY <1>0, FS_EmptySet
  <1>2. PICK x \in s : TRUE
    BY <1>1
  <1>3. IsFiniteSet(s \ {x}) /\ Cardinality(s \ {x}) = 1
    BY <1>0, <1>2, FS_RemoveElement
  <1>4. PICK y : s \ {x} = {y}
    BY <1>3, FS_Singleton
  <1>5. s = {x, y} /\ x # y
    BY <1>2, <1>4
  <1>6. Domain[x.by] # Domain[y.by]
    BY <1>5 DEF Facts!Independent
  <1>7. {Domain[o.by] : o \in s} = {Domain[x.by]} \cup {Domain[y.by]}
    BY <1>5
  <1>8. Cardinality({Domain[x.by]} \cup {Domain[y.by]}) = 2
    BY <1>6, PairCardinality
  <1> QED BY <1>0, <1>1, <1>7, <1>8

LEMMA AgreeInv ==
    ASSUME EvidenceInv, NEW p \in Person, NEW s \in SUBSET (observed \cap Facts!Automatic),
           Facts!Agree(p, s)
    PROVE  EvidenceInv'
  <1> DEFINE d == [from |-> s, value |-> (CHOOSE x \in s : TRUE).value, by |-> p,
                   docset |-> docset, kind |-> "agreement"]
  <1>1. /\ Facts!Cardinality(s) = 2 /\ Facts!Independent(s)
        /\ \A x, y \in s : x.value = y.value
        /\ derived' \in {derived, derived \cup {d}}
        /\ UNCHANGED <<observed, reviewTasks, records, conflicts, evidencePolicy, docset, revision>>
    BY DEF Facts!Agree, Facts!Reconcilable
  <1>2. s # {} /\ Facts!Cardinality({Domain[o.by] : o \in s}) = 2
    <2>1. IsFiniteSet(s)
      BY FS_Subset DEF EvidenceInv
    <2> QED BY <1>1, <2>1, TwoDomains
  <1>3. Justified(d, observed)
    <2>1. (CHOOSE x \in s : TRUE) \in s
      BY <1>2
    <2>2. /\ d.from = s /\ d.value = (CHOOSE x \in s : TRUE).value /\ d.kind = "agreement"
      OBVIOUS
    <2> HIDE DEF d
    <2>3. \E o \in d.from : d.value = o.value
      BY <2>1, <2>2
    <2> QED BY <1>2, <2>2, <2>3 DEF Justified
  <1>4. d.from = s
    OBVIOUS
  <1> HIDE DEF d
  <1>5. \A e \in derived' : Justified(e, observed)
    BY <1>1, <1>3 DEF EvidenceInv
  <1>6. ASSUME NEW c \in Facts!ConflictId
        PROVE  ConflictStands(c, conflicts[c], derived', records)
    <2>1. c # s
      BY <1>1, ConflictsDisagree
    <2>2. ConflictStands(c, conflicts[c], derived, records)
      BY DEF EvidenceInv
    <2> QED BY <1>1, <1>4, <2>1, <2>2, ConflictLeft
  <1> QED BY <1>1, <1>5, <1>6
          DEF EvidenceInv

LEMMA DisagreeInv ==
    ASSUME EvidenceInv, NEW p \in Person, NEW s, Facts!Disagree(p, s)
    PROVE  EvidenceInv'
  <1> DEFINE row == [status |-> "CONFLICT", by |-> p, task |-> "PENDING"]
  <1>1. /\ s \in Facts!ConflictId /\ conflicts[s] = NoRow
        /\ conflicts' = [conflicts EXCEPT ![s] = row]
        /\ UNCHANGED <<observed, derived, reviewTasks, records, evidencePolicy, docset, revision>>
    BY DEF Facts!Disagree, Facts!NewConflict
  <1>2. row \in ConflictRow /\ row.status # "VERIFIED"
    BY DEF ConflictRow
  <1> HIDE DEF row
  <1>3. conflicts' \in [Facts!ConflictId -> ConflictRow \cup {NoRow}]
    BY <1>1, <1>2 DEF EvidenceInv
  <1>4. ASSUME NEW c \in Facts!ConflictId
        PROVE  ConflictStands(c, conflicts'[c], derived, records)
    <2>1. ConflictStands(c, conflicts[c], derived, records)
      BY DEF EvidenceInv
    <2>2. CASE c = s
      <3>1. Unsettled(s, derived)
        BY <1>1, <2>1, <2>2 DEF ConflictStands
      <3>2. conflicts'[c] = row
        BY <1>1, <2>2 DEF EvidenceInv
      <3> QED BY <1>2, <2>2, <3>1, <3>2 DEF ConflictStands
    <2>3. CASE c # s
      BY <1>1, <2>1, <2>3 DEF EvidenceInv
    <2> QED BY <2>2, <2>3
  <1> QED BY <1>1, <1>3, <1>4
          DEF EvidenceInv

LEMMA ResolveInv ==
    ASSUME EvidenceConstants, EvidenceInv, NEW p \in Person,
           NEW s \in SUBSET (observed \cap Facts!Automatic), NEW o \in s, Facts!Resolve(p, s, o)
    PROVE  EvidenceInv'
  <1> DEFINE d == [from |-> s, value |-> o.value, by |-> p, docset |-> docset,
                   kind |-> "resolution"]
             r == [of |-> s, decision |-> "APPROVED", by |-> p]
             row == [conflicts[s] EXCEPT !.status = "VERIFIED", !.task = "APPROVED"]
  <1>1. /\ s \in Facts!ConflictId /\ conflicts[s] # NoRow /\ conflicts[s].status = "CONFLICT"
        /\ p # conflicts[s].by
        /\ conflicts' = [conflicts EXCEPT ![s].status = "VERIFIED", ![s].task = "APPROVED"]
        /\ records' = records \cup {r} /\ derived' = derived \cup {d}
        /\ UNCHANGED <<observed, reviewTasks, evidencePolicy, docset, revision>>
    BY DEF Facts!Resolve, Facts!Resolvable
  <1>2. conflicts' = [conflicts EXCEPT ![s] = row]
    BY <1>1
  <1>3. conflicts[s] \in ConflictRow
    BY <1>1 DEF EvidenceInv
  <1>4. row \in ConflictRow /\ row.status = "VERIFIED" /\ row.by = conflicts[s].by
    BY <1>3 DEF ConflictRow
  <1>5. Justified(d, observed)
    <2>1. d.from = s /\ d.value = o.value /\ d.kind = "resolution" /\ d.by = p
      OBVIOUS
    <2>2. \A x \in s : x.by \in Adapter
      BY DEF Facts!Automatic
    <2> HIDE DEF d
    <2> QED BY <2>1, <2>2 DEF Justified, EvidenceConstants
  <1>6. d.from = s /\ d.by = p /\ r.of = s
    OBVIOUS
  <1>7. r = [of |-> s, decision |-> "APPROVED", by |-> d.by]
    OBVIOUS
  <1> HIDE DEF d, r, row
  <1>8. conflicts' \in [Facts!ConflictId -> ConflictRow \cup {NoRow}]
    BY <1>2, <1>4 DEF EvidenceInv
  <1>9. \A e \in derived' : Justified(e, observed)
    BY <1>1, <1>5 DEF EvidenceInv
  <1>10. ASSUME NEW c \in Facts!ConflictId
         PROVE  ConflictStands(c, conflicts'[c], derived', records')
    <2>1. ConflictStands(c, conflicts[c], derived, records)
      BY DEF EvidenceInv
    <2>2. CASE c = s
      <3>1. Unsettled(s, derived)
        BY <1>1, <2>1, <2>2 DEF ConflictStands
      <3>2. conflicts'[c] = row
        BY <1>1, <1>2, <2>2 DEF EvidenceInv
      <3>3. row # NoRow
        BY <1>4 DEF EvidenceConstants
      <3>4. SettledBy(c, derived', d, records', row.by)
        <4>1. \A e \in derived' : e.from = s <=> e = d
          BY <1>1, <1>6, <3>1 DEF Unsettled
        <4>2. d \in derived' /\ r \in records' /\ d.by # row.by
          BY <1>1, <1>4, <1>6
        <4> QED BY <1>7, <2>2, <4>1, <4>2 DEF SettledBy
      <3>5. d \in derived'
        BY <1>1
      <3> QED BY <1>4, <2>2, <3>2, <3>3, <3>4, <3>5 DEF ConflictStands
    <2>3. CASE c # s
      <3>1. conflicts'[c] = conflicts[c]
        BY <1>2, <2>3 DEF EvidenceInv
      <3>2. records \subseteq records' /\ d.from # c /\ derived' \in {derived, derived \cup {d}}
        BY <1>1, <1>6, <2>3
      <3> QED BY <2>1, <3>1, <3>2, ConflictLeft
    <2> QED BY <2>2, <2>3
  <1>11. ReadingsDecidedOnce(records', reviewTasks)
    <2>1. \A q : r.of # {q}
      BY <1>1, <1>6, ConflictsDisagree
    <2>2. \A e \in records' : \A q : e.of = {q} => e \in records
      BY <1>1, <2>1
    <2> QED BY <2>2 DEF EvidenceInv, ReadingsDecidedOnce
  <1> QED BY <1>1, <1>8, <1>9, <1>10, <1>11
          DEF EvidenceInv

LEMMA ReplaceEvidenceInv ==
    ASSUME EvidenceConstants, EvidenceInv, NEW own \in BOOLEAN, Facts!ReplaceDocument(own)
    PROVE  EvidenceInv'
  <1>1. /\ docset < MaxSets /\ docset' = docset + 1
        /\ revision' = IF own THEN docset + 1 ELSE revision
        /\ reviewTasks' = [o \in Facts!Manual |-> Facts!Superseded(reviewTasks[o])]
        /\ conflicts' = [s \in Facts!ConflictId |-> Facts!Orphaned(conflicts[s])]
        /\ UNCHANGED <<observed, derived, records, evidencePolicy>>
    BY DEF Facts!ReplaceDocument
  <1>2. docset' \in 1 .. MaxSets /\ revision' \in 1 .. MaxSets
    BY <1>1 DEF EvidenceInv, EvidenceConstants
  <1>3. ASSUME NEW o \in Facts!Manual
        PROVE  /\ reviewTasks'[o] \in ReviewTask \cup {NoRow}
               /\ reviewTasks[o] # NoRow => /\ reviewTasks'[o] # NoRow
                                            /\ reviewTasks'[o].status # "PENDING"
    <2>1. reviewTasks'[o] = Facts!Superseded(reviewTasks[o])
      BY <1>1
    <2>2. CASE reviewTasks[o] = NoRow
      BY <2>1, <2>2 DEF Facts!Superseded
    <2>3. CASE reviewTasks[o] \in ReviewTask
      <3>1. /\ reviewTasks'[o] = [reviewTasks[o] EXCEPT !.status = "SUPERSEDED"]
        BY <2>1, <2>3 DEF Facts!Superseded, EvidenceConstants
      <3>2. reviewTasks'[o] \in ReviewTask /\ reviewTasks'[o].status = "SUPERSEDED"
        BY <2>3, <3>1 DEF ReviewTask
      <3> QED BY <3>2 DEF EvidenceConstants
    <2> QED BY <2>2, <2>3 DEF EvidenceInv
  <1>4. ASSUME NEW s \in Facts!ConflictId
        PROVE  /\ conflicts'[s] \in ConflictRow \cup {NoRow}
               /\ conflicts[s] = NoRow <=> conflicts'[s] = NoRow
               /\ conflicts[s] # NoRow => /\ conflicts'[s].status = conflicts[s].status
                                          /\ conflicts'[s].by = conflicts[s].by
    <2>1. conflicts'[s] = Facts!Orphaned(conflicts[s])
      BY <1>1
    <2>2. CASE conflicts[s] = NoRow
      BY <2>1, <2>2 DEF Facts!Orphaned
    <2>3. CASE conflicts[s] \in ConflictRow
      <3>1. conflicts'[s] = [conflicts[s] EXCEPT !.task = "SUPERSEDED"]
        BY <2>1, <2>3 DEF Facts!Orphaned, EvidenceConstants
      <3>2. /\ conflicts'[s] \in ConflictRow /\ conflicts'[s].status = conflicts[s].status
            /\ conflicts'[s].by = conflicts[s].by
        BY <2>3, <3>1 DEF ConflictRow
      <3> QED BY <2>3, <3>2 DEF EvidenceConstants
    <2> QED BY <2>2, <2>3 DEF EvidenceInv
  <1>5. reviewTasks' \in [Facts!Manual -> ReviewTask \cup {NoRow}]
    BY <1>1, <1>3
  <1>6. conflicts' \in [Facts!ConflictId -> ConflictRow \cup {NoRow}]
    BY <1>1, <1>4
  <1>7. \A s \in Facts!ConflictId : ConflictStands(s, conflicts'[s], derived, records)
    BY <1>4 DEF EvidenceInv, ConflictStands
  <1>8. ReadingsDecidedOnce(records, reviewTasks')
    BY <1>3 DEF EvidenceInv, ReadingsDecidedOnce
  <1> QED BY <1>1, <1>2, <1>5, <1>6, <1>7, <1>8
          DEF EvidenceInv

LEMMA EvidenceNextInv ==
    ASSUME EvidenceConstants, EvidenceInv, [Facts!EvidenceNext]_(Facts!evidenceVars)
    PROVE  EvidenceInv'
  <1>1. ASSUME UNCHANGED <<observed, derived, reviewTasks, records, conflicts, docset, revision>>,
               evidencePolicy' \in Policy
        PROVE  EvidenceInv'
    BY <1>1 DEF EvidenceInv
  <1>2. evidencePolicy \in Policy
    BY DEF EvidenceInv
  <1>3. ASSUME NEW a \in Adapter, Facts!Expire(a)
        PROVE  EvidenceInv'
    BY <1>1, <1>2, <1>3 DEF Facts!Expire
  <1>4. ASSUME NEW a \in Adapter, NEW v \in Value, Facts!RecordAutomatic(a, v)
        PROVE  EvidenceInv'
    BY <1>4, RecordAutomaticInv
  <1>5. ASSUME NEW p \in Person, NEW v \in Value, Facts!RecordManual(p, v)
        PROVE  EvidenceInv'
    BY <1>5, RecordManualInv
  <1>6. ASSUME NEW p \in Person, NEW o \in observed \cap Facts!Manual,
               NEW d \in {"APPROVED", "REJECTED"}, Facts!DecideManual(p, o, d)
        PROVE  EvidenceInv'
    BY <1>6, DecideManualInv
  <1>7. ASSUME NEW p \in Person, NEW s \in SUBSET (observed \cap Facts!Automatic), Facts!Agree(p, s)
        PROVE  EvidenceInv'
    BY <1>7, AgreeInv
  <1>8. ASSUME NEW p \in Person, NEW s \in SUBSET (observed \cap Facts!Automatic),
               Facts!Disagree(p, s)
        PROVE  EvidenceInv'
    BY <1>8, DisagreeInv
  <1>9. ASSUME NEW p \in Person, NEW s \in SUBSET (observed \cap Facts!Automatic), NEW o \in s,
               Facts!Resolve(p, s, o)
        PROVE  EvidenceInv'
    BY <1>9, ResolveInv
  <1>10. ASSUME NEW own \in BOOLEAN, Facts!ReplaceDocument(own)
         PROVE  EvidenceInv'
    BY <1>10, ReplaceEvidenceInv
  <1>11. CASE Facts!ConfirmSet
    BY <1>1, <1>2, <1>11 DEF Facts!ConfirmSet
  <1>12. ASSUME NEW v \in Policy, Facts!BindPolicy(v)
         PROVE  EvidenceInv'
    BY <1>1, <1>12 DEF Facts!BindPolicy
  <1>13. CASE UNCHANGED Facts!evidenceVars
    BY <1>1, <1>2, <1>13 DEF Facts!evidenceVars
  <1> QED BY <1>3, <1>4, <1>5, <1>6, <1>7, <1>8, <1>9, <1>10, <1>11, <1>12, <1>13
          DEF Facts!EvidenceNext

LEMMA EvidenceHolds ==
    ASSUME EvidenceInv
    PROVE  Facts!DerivedIsJustified
  <1>1. \A d \in derived :
          /\ d.from \subseteq observed
          /\ \E o \in d.from : d.value = o.value
          /\ d.kind = "agreement" => Facts!Cardinality({Domain[o.by] : o \in d.from}) = 2
          /\ d.kind # "agreement" => \A o \in d.from : o.by # d.by
    BY DEF EvidenceInv, Justified
  <1>2. ASSUME NEW s \in Facts!ConflictId
        PROVE  /\ Facts!Cardinality({d \in derived : d.from = s}) =
                     (IF conflicts[s] # NoRow /\ conflicts[s].status = "VERIFIED" THEN 1 ELSE 0)
               /\ \A d \in {d \in derived : d.from = s} :
                     /\ [of |-> s, decision |-> "APPROVED", by |-> d.by] \in records
                     /\ d.by # conflicts[s].by
    <2>0. \A S : Facts!Cardinality(S) = Cardinality(S)
      BY DEF Facts!Cardinality, Cardinality
    <2>1. ConflictStands(s, conflicts[s], derived, records)
      BY DEF EvidenceInv
    <2>2. CASE conflicts[s] # NoRow /\ conflicts[s].status = "VERIFIED"
      <3>1. PICK d \in derived : SettledBy(s, derived, d, records, conflicts[s].by)
        BY <2>1, <2>2 DEF ConflictStands
      <3>2. {e \in derived : e.from = s} = {d}
        BY <3>1 DEF SettledBy
      <3>3. Cardinality({d}) = 1
        BY FS_Singleton
      <3> QED BY <2>0, <2>2, <3>1, <3>2, <3>3 DEF SettledBy
    <2>3. CASE ~ (conflicts[s] # NoRow /\ conflicts[s].status = "VERIFIED")
      <3>1. {e \in derived : e.from = s} = {}
        BY <2>1, <2>3 DEF ConflictStands, Unsettled
      <3> QED BY <2>0, <2>3, <3>1, FS_EmptySet
    <2> QED BY <2>2, <2>3
  <1>3. ASSUME NEW d \in derived, Facts!Usable(d), NEW r \in records, r.of = d.from
        PROVE  r.by = d.by
    <2>1. PICK o \in Facts!Manual : d.from = {o}
      BY <1>3 DEF EvidenceInv, Justified, Facts!Usable
    <2>2. [of |-> {o}, decision |-> "APPROVED", by |-> d.by] \in records
      BY <1>3, <2>1 DEF Facts!Usable
    <2> DEFINE q == [of |-> {o}, decision |-> "APPROVED", by |-> d.by]
    <2>3. q \in records /\ q.of = {o} /\ q.by = d.by
      BY <2>2
    <2> HIDE DEF q
    <2>4. r = q
      BY <1>3, <2>1, <2>3 DEF EvidenceInv, ReadingsDecidedOnce
    <2> QED BY <2>3, <2>4
  <1> QED BY <1>1, <1>2, <1>3 DEF Facts!DerivedIsJustified

-----------------------------------------------------------------------------
(* The passport.                                                            *)

\* The inductive invariant: every revision of a fact is reviewed once, and a
\* finding remains only while some field has no verified fact.
PassportInv ==
    /\ facts \in [Field -> Seq(Profile!FactRow)]
    /\ ReviewedOnce(Field, facts, factReviews, factApprovals)
    /\ factFindings \subseteq Field
    /\ requirements \in Requirements /\ docset \in 1 .. MaxSets
    /\ Profile!Invalid(facts) = {} => factFindings = {}

LEMMA PassportInitInv ==
    ASSUME PassportConstants, Profile!PassportInit
    PROVE  PassportInv
  <1>1. /\ facts = [f \in Field |-> <<>>] /\ factReviews = [f \in Field |-> <<>>]
        /\ factApprovals = {} /\ factFindings = {}
        /\ requirements \in Requirements /\ docset = 1
    BY DEF Profile!PassportInit
  <1>2. facts \in [Field -> Seq(Profile!FactRow)]
    BY <1>1, EmptySeq
  <1>3. /\ factReviews \in [Field -> Seq(ReviewStatus)]
        /\ \A f \in Field : Len(facts[f]) = 0 /\ Len(factReviews[f]) = 0
    BY <1>1, EmptySeq
  <1>4. ReviewedOnce(Field, facts, factReviews, factApprovals)
    BY <1>1, <1>3 DEF ReviewedOnce
  <1> QED BY <1>1, <1>2, <1>4 DEF PassportInv, PassportConstants

\* The current fact of a field.
LEMMA CurrentFactTyped ==
    ASSUME PassportInv, NEW f \in Field, facts[f] # <<>>
    PROVE  /\ Len(facts[f]) \in 1 .. Len(facts[f])
           /\ Profile!CurrentFact(f) = facts[f][Len(facts[f])]
           /\ Profile!CurrentFact(f) \in Profile!FactRow
           /\ factReviews[f][Len(factReviews[f])] = factReviews[f][Len(facts[f])]
  <1>1. facts[f] \in Seq(Profile!FactRow) /\ Len(factReviews[f]) = Len(facts[f])
    BY DEF PassportInv, ReviewedOnce
  <1> QED BY <1>1, HasLast DEF Profile!CurrentFact

\* With a current fact that is not verified the passport is invalid.
LEMMA OpenFactInvalid ==
    ASSUME NEW rows, NEW f \in Field, rows[f] # <<>>,
           rows[f][Len(rows[f])].status # "VERIFIED"
    PROVE  Profile!Invalid(rows) # {}
  BY DEF Profile!Invalid

LEMMA SubmitFactInv ==
    ASSUME PassportInv, NEW p \in Estimator, NEW f \in Field, Profile!SubmitFact(p, f)
    PROVE  PassportInv'
  <1> DEFINE row == [by |-> p, requirements |-> requirements, docset |-> docset,
                     status |-> "IN_REVIEW", reviewer |-> Nobody]
  <1>1. row \in Profile!FactRow
    BY DEF PassportInv, Profile!FactRow
  <1>2. /\ facts' = [facts EXCEPT ![f] = Append(@, row)]
        /\ factReviews' = [factReviews EXCEPT ![f] = Append(Profile!SupersededReview(f), "PENDING")]
        /\ UNCHANGED <<factApprovals, factFindings, requirements, docset>>
    BY DEF Profile!SubmitFact
  <1>3. row.status = "IN_REVIEW"
    OBVIOUS
  <1> HIDE DEF row
  <1>4. /\ facts' \in [Field -> Seq(Profile!FactRow)]
        /\ ReviewedOnce(Field, facts', factReviews', factApprovals)
    BY <1>1, <1>2, SubmittedReviews DEF PassportInv, Profile!SupersededReview
  <1>5. Profile!Invalid(facts') # {}
    <2>1. facts'[f] = Append(facts[f], row) /\ facts[f] \in Seq(Profile!FactRow)
      BY <1>2 DEF PassportInv
    <2>2. facts'[f] # <<>> /\ facts'[f][Len(facts'[f])] = row
      BY <1>1, <2>1, Longer
    <2> QED BY <1>3, <2>2, OpenFactInvalid
  <1> QED BY <1>2, <1>4, <1>5 DEF PassportInv, ReviewedOnce, Profile!Invalid

LEMMA DecideFactInv ==
    ASSUME PassportInv, NEW p \in Estimator, NEW f \in Field,
           NEW d \in {"APPROVED", "REJECTED"}, Profile!DecideFact(p, f, d)
    PROVE  PassportInv'
  <1> DEFINE n == Len(facts[f])
             status == IF d = "APPROVED" THEN "VERIFIED" ELSE "REJECTED"
             row == [facts[f][n] EXCEPT !.status = status, !.reviewer = p]
             entry == [of |-> <<f, n>>, by |-> p, decision |-> d]
  <1>1. facts[f] # <<>> /\ factReviews[f][Len(factReviews[f])] = "PENDING"
    BY DEF Profile!DecideFact, Profile!FactReviewable, Profile!Stated
  <1>2. /\ n \in 1 .. n /\ facts[f][n] \in Profile!FactRow
        /\ factReviews[f][n] = "PENDING"
    BY <1>1, CurrentFactTyped
  <1>3. row \in Profile!FactRow
    BY <1>2 DEF Profile!FactRow
  <1>4. /\ facts' = [facts EXCEPT ![f][n].status = status, ![f][n].reviewer = p]
        /\ factReviews' = [factReviews EXCEPT ![f][n] = d]
        /\ factApprovals' = factApprovals \cup {entry}
        /\ factFindings' = Profile!Invalid(facts')
        /\ UNCHANGED <<requirements, docset>>
    BY DEF Profile!DecideFact, Profile!Validated
  <1>5. facts' = [facts EXCEPT ![f] = [@ EXCEPT ![n] = row]]
    BY <1>4
  <1>6. factReviews' = [factReviews EXCEPT ![f] = [@ EXCEPT ![n] = d]]
    BY <1>4
  <1>7. entry.of = <<f, n>>
    OBVIOUS
  <1> HIDE DEF row, entry
  <1>8. /\ facts' \in [Field -> Seq(Profile!FactRow)]
        /\ ReviewedOnce(Field, facts', factReviews', factApprovals')
    <2>1. facts \in [Field -> Seq(Profile!FactRow)]
          /\ ReviewedOnce(Field, facts, factReviews, factApprovals)
      BY DEF PassportInv
    <2>2. Decides(Field, Profile!FactRow, facts, facts', factReviews, factReviews', f, n, row,
                  d, entry)
      BY <1>1, <1>2, <1>3, <1>5, <1>6, <1>7 DEF Decides
    <2>3. /\ facts' \in [Field -> Seq(Profile!FactRow)]
          /\ ReviewedOnce(Field, facts', factReviews', factApprovals \cup {entry})
      BY <2>1, <2>2, DecidedReviews
    <2> QED BY <1>4, <2>3
  <1>9. factFindings' \subseteq Field
    BY <1>4 DEF Profile!Invalid
  <1> QED BY <1>4, <1>8, <1>9 DEF PassportInv, ReviewedOnce, Profile!Invalid

LEMMA ReplaceFactDocumentInv ==
    ASSUME PassportConstants, PassportInv, Profile!ReplaceDocument
    PROVE  PassportInv'
  <1>1. /\ docset < MaxSets
        /\ facts' = Profile!InvalidatedFacts
        /\ factReviews' = [f \in Field |-> [i \in DOMAIN factReviews[f] |-> "SUPERSEDED"]]
        /\ docset' = docset + 1
        /\ UNCHANGED <<factApprovals, factFindings, requirements>>
    BY DEF Profile!ReplaceDocument
  <1>2. ASSUME NEW f \in Field
        PROVE  /\ facts'[f] \in Seq(Profile!FactRow) /\ Len(facts'[f]) = Len(facts[f])
               /\ facts[f] # <<>> => facts'[f][Len(facts[f])].status = "IN_REVIEW"
    <2>1. facts[f] \in Seq(Profile!FactRow)
      BY DEF PassportInv
    <2>2. facts'[f] = [i \in DOMAIN facts[f] |->
                         IF i = Len(facts[f]) THEN [facts[f][i] EXCEPT !.status = "IN_REVIEW"]
                         ELSE facts[f][i]]
      BY <1>1 DEF Profile!InvalidatedFacts
    <2>3. DOMAIN facts[f] = 1 .. Len(facts[f])
          /\ \A i \in DOMAIN facts[f] : facts[f][i] \in Profile!FactRow
      BY <2>1, HasLast
    <2>4. facts'[f] \in [DOMAIN facts[f] -> Profile!FactRow]
      BY <2>2, <2>3 DEF Profile!FactRow
    <2>5. facts'[f] \in Seq(Profile!FactRow) /\ Len(facts'[f]) = Len(facts[f])
      BY <2>1, <2>4, Remapped
    <2>6. facts[f] # <<>> => facts'[f][Len(facts[f])].status = "IN_REVIEW"
      BY <2>1, <2>2, <2>3, HasLast DEF Profile!FactRow
    <2> QED BY <2>5, <2>6
  <1>3. facts' \in [Field -> Seq(Profile!FactRow)]
    BY <1>1, <1>2 DEF Profile!InvalidatedFacts
  <1>4. ReviewedOnce(Field, facts', factReviews', factApprovals)
    BY <1>1, <1>2, <1>3, SupersededReviews DEF PassportInv
  <1>5. ASSUME Profile!Invalid(facts') = {}
        PROVE  Field = {}
    <2> SUFFICES ASSUME NEW f \in Field
                 PROVE  FALSE
      OBVIOUS
    <2>1. facts'[f] # <<>> /\ facts'[f][Len(facts'[f])].status = "VERIFIED"
      BY <1>5 DEF Profile!Invalid
    <2>2. facts[f] # <<>>
      BY <1>2, <2>1, HasLast DEF PassportInv
    <2> QED BY <1>2, <2>1, <2>2
  <1>6. docset' \in 1 .. MaxSets /\ factFindings' \subseteq Field /\ requirements' \in Requirements
    BY <1>1 DEF PassportInv, PassportConstants
  <1>7. Profile!Invalid(facts') = {} => factFindings' = {}
    BY <1>5, <1>6
  <1>8. ReviewedOnce(Field, facts', factReviews', factApprovals')
    BY <1>1, <1>4
  <1> HIDE DEF PassportConstants
  <1> QED BY <1>3, <1>6, <1>7, <1>8 DEF PassportInv, ReviewedOnce, Profile!Invalid

LEMMA PassportNextInv ==
    ASSUME PassportConstants, PassportInv, [Profile!PassportNext]_(Profile!passportVars)
    PROVE  PassportInv'
  <1>0. ASSUME UNCHANGED <<facts, factReviews, factApprovals, docset>>,
               factFindings' \subseteq factFindings, requirements' \in Requirements
        PROVE  PassportInv'
    <2>1. /\ facts' \in [Field -> Seq(Profile!FactRow)] /\ docset' \in 1 .. MaxSets
          /\ factFindings' \subseteq Field
      BY <1>0 DEF PassportInv
    <2>2. ReviewedOnce(Field, facts', factReviews', factApprovals')
      BY <1>0 DEF PassportInv
    <2>3. Profile!Invalid(facts') = {} => factFindings' = {}
      BY <1>0 DEF PassportInv
    <2> QED BY <1>0, <2>1, <2>2, <2>3 DEF PassportInv, ReviewedOnce, Profile!Invalid
  <1>1. CASE UNCHANGED Profile!passportVars
    BY <1>0, <1>1 DEF Profile!passportVars, PassportInv
  <1>2. ASSUME NEW p \in Estimator, NEW f \in Field, Profile!SubmitFact(p, f)
        PROVE  PassportInv'
    BY <1>2, SubmitFactInv
  <1>3. ASSUME NEW p \in Estimator, NEW f \in Field, NEW d \in {"APPROVED", "REJECTED"},
               Profile!DecideFact(p, f, d)
        PROVE  PassportInv'
    BY <1>3, DecideFactInv
  <1>4. CASE Profile!ValidateCurrent
    <2>1. /\ factFindings' = Profile!Invalid(facts)
          /\ UNCHANGED <<facts, factReviews, factApprovals, requirements, docset>>
      BY <1>4 DEF Profile!ValidateCurrent
    <2>2. factFindings' \subseteq Field
      BY <2>1 DEF Profile!Invalid
    <2>3. Profile!Invalid(facts') = {} => factFindings' = {}
      BY <2>1 DEF Profile!Invalid
    <2>4. ReviewedOnce(Field, facts', factReviews', factApprovals')
      BY <2>1 DEF PassportInv
    <2>5. /\ facts' \in [Field -> Seq(Profile!FactRow)]
          /\ requirements' \in Requirements /\ docset' \in 1 .. MaxSets
      BY <2>1 DEF PassportInv
    <2> QED BY <2>2, <2>3, <2>4, <2>5 DEF PassportInv, ReviewedOnce, Profile!Invalid
  <1>5. CASE Profile!ReplaceDocument
    BY <1>5, ReplaceFactDocumentInv
  <1>6. CASE Profile!ConfirmSet
    BY <1>0, <1>6 DEF Profile!ConfirmSet, PassportInv
  <1>7. ASSUME NEW v \in Requirements, Profile!BindRequirements(v)
        PROVE  PassportInv'
    BY <1>0, <1>7 DEF Profile!BindRequirements
  <1>8. ASSUME NEW f \in Field, Profile!Dispute(f)
        PROVE  PassportInv'
    BY <1>0, <1>8 DEF Profile!Dispute, PassportInv
  <1>9. CASE Profile!PassportNext
    BY <1>2, <1>3, <1>4, <1>5, <1>6, <1>7, <1>8, <1>9 DEF Profile!PassportNext
  <1> QED BY <1>1, <1>9

LEMMA PassportHolds ==
    ASSUME PassportInv
    PROVE  Profile!PassportTypeOK /\ Profile!PassportStands
  <1>1. Profile!PassportTypeOK
    <2>1. \A f \in Field : DOMAIN factReviews[f] = DOMAIN facts[f]
      BY LenProperties DEF PassportInv, ReviewedOnce
    <2> QED BY <2>1 DEF Profile!PassportTypeOK, PassportInv
  <1>2. ASSUME Profile!PassportGate
        PROVE  factFindings = {}
    <2>1. \A f \in Field : facts[f] # <<>> /\ facts[f][Len(facts[f])].status = "VERIFIED"
      BY <1>2 DEF Profile!PassportGate, Profile!FactVerifies, Profile!Stated, Profile!CurrentFact
    <2> QED BY <2>1 DEF PassportInv, Profile!Invalid
  <1>3. ASSUME Profile!PassportGate, NEW f \in Field
        PROVE  \E a \in factApprovals :
                  /\ a.by # Profile!CurrentFact(f).by
                  /\ {b \in factApprovals : b.of = <<f, Len(facts[f])>>} = {a}
    <2> DEFINE a == [of |-> <<f, Len(facts[f])>>, by |-> Profile!CurrentFact(f).reviewer,
                     decision |-> "APPROVED"]
    <2>1. a \in factApprovals /\ a.by # Profile!CurrentFact(f).by /\ a.of = <<f, Len(facts[f])>>
      BY <1>3 DEF Profile!PassportGate, Profile!FactVerifies
    <2> HIDE DEF a
    <2>2. {b \in factApprovals : b.of = <<f, Len(facts[f])>>} = {a}
      BY <2>1 DEF PassportInv, ReviewedOnce
    <2> QED BY <2>1, <2>2
  <1>4. \A f \in Profile!Stated : \A i \in 1 .. Len(facts[f]) - 1 : factReviews[f][i] = "SUPERSEDED"
    BY DEF Profile!Stated, PassportInv, ReviewedOnce
  <1> QED BY <1>1, <1>2, <1>3, <1>4 DEF Profile!PassportStands

-----------------------------------------------------------------------------
(* The risk register.                                                       *)

\* An item of the current document set was not invalidated since.
Unmarked(row, now) == row.docset <= now /\ (row.docset = now => row.marked = 0)

\* The inductive invariant: every revision of an item is reviewed once, and the
\* current one is not older than its document set says.
RiskInv ==
    /\ items \in [RiskKey -> Seq(Risks!ItemRow)]
    /\ ReviewedOnce(RiskKey, items, riskReviews, riskApprovals)
    /\ model \in Model /\ docset \in 1 .. MaxSets
    /\ \A k \in RiskKey : items[k] # <<>> => Unmarked(items[k][Len(items[k])], docset)

LEMMA RiskInitInv ==
    ASSUME PassportConstants, Risks!RiskInit
    PROVE  RiskInv
  <1>1. /\ items = [k \in RiskKey |-> <<>>] /\ riskReviews = [k \in RiskKey |-> <<>>]
        /\ riskApprovals = {} /\ model \in Model /\ docset = 1
    BY DEF Risks!RiskInit
  <1>2. items \in [RiskKey -> Seq(Risks!ItemRow)]
    BY <1>1, EmptySeq
  <1>3. /\ riskReviews \in [RiskKey -> Seq(ReviewStatus)]
        /\ \A k \in RiskKey : Len(items[k]) = 0 /\ Len(riskReviews[k]) = 0
    BY <1>1, EmptySeq
  <1>4. ReviewedOnce(RiskKey, items, riskReviews, riskApprovals)
    BY <1>1, <1>3 DEF ReviewedOnce
  <1> QED BY <1>1, <1>2, <1>4 DEF RiskInv, PassportConstants

LEMMA CurrentItemTyped ==
    ASSUME RiskInv, NEW k \in RiskKey, items[k] # <<>>
    PROVE  /\ Len(items[k]) \in 1 .. Len(items[k])
           /\ Risks!CurrentItem(k) = items[k][Len(items[k])]
           /\ Risks!CurrentItem(k) \in Risks!ItemRow
           /\ riskReviews[k][Len(riskReviews[k])] = riskReviews[k][Len(items[k])]
  <1>1. items[k] \in Seq(Risks!ItemRow) /\ Len(riskReviews[k]) = Len(items[k])
    BY DEF RiskInv, ReviewedOnce
  <1> QED BY <1>1, HasLast DEF Risks!CurrentItem

LEMMA SubmitRiskInv ==
    ASSUME PassportConstants, RiskInv, NEW p \in Estimator, NEW k \in RiskKey, Risks!SubmitRisk(p, k)
    PROVE  RiskInv'
  <1> DEFINE row == [by |-> p, model |-> model, docset |-> docset, status |-> "IN_REVIEW",
                     reviewer |-> Nobody, marked |-> 0]
  <1>1. row \in Risks!ItemRow
    BY DEF RiskInv, Risks!ItemRow, PassportConstants
  <1>2. /\ items' = [items EXCEPT ![k] = Append(@, row)]
        /\ riskReviews' = [riskReviews EXCEPT ![k] = Append(Risks!ReviewsSuperseded(k), "PENDING")]
        /\ UNCHANGED <<riskApprovals, model, docset>>
    BY DEF Risks!SubmitRisk
  <1>3. row.docset = docset /\ row.marked = 0 /\ docset <= docset
    BY DEF RiskInv
  <1> HIDE DEF row
  <1>4. /\ items' \in [RiskKey -> Seq(Risks!ItemRow)]
        /\ ReviewedOnce(RiskKey, items', riskReviews', riskApprovals)
    BY <1>1, <1>2, SubmittedReviews DEF RiskInv, Risks!ReviewsSuperseded
  <1>5. ASSUME NEW j \in RiskKey, items'[j] # <<>>
        PROVE  Unmarked(items'[j][Len(items'[j])], docset')
    <2>1. CASE j = k
      <3>1. items'[j] = Append(items[k], row) /\ items[k] \in Seq(Risks!ItemRow)
        BY <1>2, <2>1 DEF RiskInv
      <3>2. items'[j][Len(items'[j])] = row
        BY <1>1, <3>1, Longer
      <3> QED BY <1>2, <1>3, <3>2 DEF Unmarked
    <2>2. CASE j # k
      BY <1>2, <1>5, <2>2 DEF RiskInv, Unmarked
    <2> QED BY <2>1, <2>2
  <1>6. ReviewedOnce(RiskKey, items', riskReviews', riskApprovals')
    BY <1>2, <1>4
  <1>7. model' \in Model /\ docset' \in 1 .. MaxSets
    BY <1>2 DEF RiskInv
  <1> QED BY <1>4, <1>5, <1>6, <1>7 DEF RiskInv, ReviewedOnce

LEMMA DecideRiskInv ==
    ASSUME RiskInv, NEW p \in Estimator, NEW k \in RiskKey,
           NEW d \in {"APPROVED", "REJECTED"}, Risks!DecideRisk(p, k, d)
    PROVE  RiskInv'
  <1> DEFINE n == Len(items[k])
             row == [items[k][n] EXCEPT !.status = Risks!Verdict(d), !.reviewer = p]
             entry == [of |-> <<k, n>>, by |-> p, decision |-> d]
  <1>1. items[k] # <<>> /\ riskReviews[k][Len(riskReviews[k])] = "PENDING"
    BY DEF Risks!DecideRisk, Risks!RiskReviewable, Risks!Registered
  <1>2. /\ n \in 1 .. n /\ items[k][n] \in Risks!ItemRow
        /\ riskReviews[k][n] = "PENDING"
    BY <1>1, CurrentItemTyped
  <1>3. /\ row \in Risks!ItemRow
        /\ row.docset = items[k][n].docset /\ row.marked = items[k][n].marked
    BY <1>2 DEF Risks!ItemRow, Risks!Verdict
  <1>4. /\ items' = [items EXCEPT ![k][n].status = Risks!Verdict(d), ![k][n].reviewer = p]
        /\ riskReviews' = [riskReviews EXCEPT ![k][n] = d]
        /\ riskApprovals' = riskApprovals \cup {entry}
        /\ UNCHANGED <<model, docset>>
    BY DEF Risks!DecideRisk
  <1>5. items' = [items EXCEPT ![k] = [@ EXCEPT ![n] = row]]
    BY <1>4
  <1>6. riskReviews' = [riskReviews EXCEPT ![k] = [@ EXCEPT ![n] = d]]
    BY <1>4
  <1>7. entry.of = <<k, n>>
    OBVIOUS
  <1> HIDE DEF row, entry
  <1>8. /\ items' \in [RiskKey -> Seq(Risks!ItemRow)]
        /\ ReviewedOnce(RiskKey, items', riskReviews', riskApprovals')
    <2>1. items \in [RiskKey -> Seq(Risks!ItemRow)]
          /\ ReviewedOnce(RiskKey, items, riskReviews, riskApprovals)
      BY DEF RiskInv
    <2>2. Decides(RiskKey, Risks!ItemRow, items, items', riskReviews, riskReviews', k, n, row,
                  d, entry)
      BY <1>1, <1>2, <1>3, <1>5, <1>6, <1>7 DEF Decides
    <2>3. /\ items' \in [RiskKey -> Seq(Risks!ItemRow)]
          /\ ReviewedOnce(RiskKey, items', riskReviews', riskApprovals \cup {entry})
      BY <2>1, <2>2, DecidedReviews
    <2> QED BY <1>4, <2>3
  <1>9. ASSUME NEW j \in RiskKey, items'[j] # <<>>
        PROVE  Unmarked(items'[j][Len(items'[j])], docset')
    <2>1. CASE j = k
      <3>1. items[k] \in Seq(Risks!ItemRow) /\ items'[j] = [items[k] EXCEPT ![n] = row]
        BY <1>5, <2>1 DEF RiskInv
      <3>2. items'[j][Len(items'[j])] = row
        BY <1>2, <1>3, <3>1, ExceptSeq
      <3>3. Unmarked(items[k][n], docset)
        BY <1>1 DEF RiskInv
      <3> QED BY <1>3, <1>4, <3>2, <3>3 DEF Unmarked
    <2>2. CASE j # k
      BY <1>4, <1>5, <1>9, <2>2 DEF RiskInv, Unmarked
    <2> QED BY <2>1, <2>2
  <1>10. model' \in Model /\ docset' \in 1 .. MaxSets
    BY <1>4 DEF RiskInv
  <1> QED BY <1>8, <1>9, <1>10 DEF RiskInv, ReviewedOnce

LEMMA ReplaceRiskDocumentInv ==
    ASSUME PassportConstants, RiskInv, Risks!ReplaceDocument
    PROVE  RiskInv'
  <1>1. /\ docset < MaxSets
        /\ items' = [k \in RiskKey |-> [i \in DOMAIN items[k] |->
              IF i = Len(items[k]) THEN Risks!InvalidatedItem(items[k][i]) ELSE items[k][i]]]
        /\ riskReviews' = [k \in RiskKey |-> [i \in DOMAIN riskReviews[k] |-> "SUPERSEDED"]]
        /\ docset' = docset + 1
        /\ UNCHANGED <<riskApprovals, model>>
    BY DEF Risks!ReplaceDocument
  <1>0. docset \in 1 .. MaxSets /\ MaxSets \in Nat /\ docset + 1 \in 0 .. MaxSets
        /\ docset' \in 1 .. MaxSets
    BY <1>1 DEF RiskInv, PassportConstants
  <1>2. ASSUME NEW k \in RiskKey
        PROVE  /\ items'[k] \in Seq(Risks!ItemRow) /\ Len(items'[k]) = Len(items[k])
               /\ items[k] # <<>> => items'[k][Len(items[k])].docset = items[k][Len(items[k])].docset
    <2>1. items[k] \in Seq(Risks!ItemRow)
      BY DEF RiskInv
    <2>2. items'[k] = [i \in DOMAIN items[k] |->
              IF i = Len(items[k]) THEN Risks!InvalidatedItem(items[k][i]) ELSE items[k][i]]
      BY <1>1
    <2>3. DOMAIN items[k] = 1 .. Len(items[k])
          /\ \A i \in DOMAIN items[k] : items[k][i] \in Risks!ItemRow
      BY <2>1, HasLast
    <2>4. \A i \in DOMAIN items[k] : /\ Risks!InvalidatedItem(items[k][i]) \in Risks!ItemRow
                                     /\ Risks!InvalidatedItem(items[k][i]).docset = items[k][i].docset
      BY <1>0, <2>3 DEF Risks!ItemRow, Risks!InvalidatedItem
    <2>5. items'[k] \in [DOMAIN items[k] -> Risks!ItemRow]
      BY <2>2, <2>3, <2>4
    <2>6. items'[k] \in Seq(Risks!ItemRow) /\ Len(items'[k]) = Len(items[k])
      BY <2>1, <2>5, Remapped
    <2>7. items[k] # <<>> => items'[k][Len(items[k])].docset = items[k][Len(items[k])].docset
      BY <2>1, <2>2, <2>3, <2>4, HasLast
    <2> QED BY <2>6, <2>7
  <1>3. items' \in [RiskKey -> Seq(Risks!ItemRow)]
    BY <1>1, <1>2
  <1>4. ReviewedOnce(RiskKey, items', riskReviews', riskApprovals')
    <2>1. items \in [RiskKey -> Seq(Risks!ItemRow)]
          /\ ReviewedOnce(RiskKey, items, riskReviews, riskApprovals)
      BY DEF RiskInv
    <2>3. riskReviews' = [k \in RiskKey |-> [i \in DOMAIN riskReviews[k] |-> "SUPERSEDED"]]
      BY <1>1
    <2>4. \A k \in RiskKey : Len(items'[k]) = Len(items[k])
      BY <1>2
    <2>2. ReviewedOnce(RiskKey, items', riskReviews', riskApprovals)
      BY <1>3, <2>1, <2>3, <2>4, SupersededReviews
    <2> QED BY <1>1, <2>2
  <1>5. ASSUME NEW k \in RiskKey, items'[k] # <<>>
        PROVE  Unmarked(items'[k][Len(items'[k])], docset')
    <2>1. items[k] # <<>> /\ items[k][Len(items[k])] \in Risks!ItemRow
      BY <1>2, <1>5, HasLast DEF RiskInv
    <2>2. items[k][Len(items[k])].docset \in 1 .. MaxSets
          /\ items[k][Len(items[k])].docset <= docset
      BY <2>1 DEF RiskInv, Unmarked, Risks!ItemRow
    <2>3. items'[k][Len(items'[k])].docset = items[k][Len(items[k])].docset
      BY <1>2, <2>1
    <2>4. docset' = docset + 1 /\ docset \in Nat
      BY <1>0, <1>1
    <2>5. items'[k][Len(items'[k])].docset < docset'
      BY <2>2, <2>3, <2>4
    <2> QED BY <2>2, <2>3, <2>4, <2>5 DEF Unmarked
  <1>6. model' \in Model
    BY <1>1 DEF RiskInv
  <1> QED BY <1>0, <1>3, <1>4, <1>5, <1>6 DEF RiskInv, ReviewedOnce

LEMMA RiskNextInv ==
    ASSUME PassportConstants, RiskInv, [Risks!RiskNext]_(Risks!riskVars)
    PROVE  RiskInv'
  <1>1. ASSUME UNCHANGED <<items, riskReviews, riskApprovals, docset>>, model' \in Model
        PROVE  RiskInv'
    BY <1>1 DEF RiskInv, ReviewedOnce, Unmarked
  <1>2. ASSUME NEW p \in Estimator, NEW k \in RiskKey, Risks!SubmitRisk(p, k)
        PROVE  RiskInv'
    BY <1>2, SubmitRiskInv
  <1>3. ASSUME NEW p \in Estimator, NEW k \in RiskKey, NEW d \in {"APPROVED", "REJECTED"},
               Risks!DecideRisk(p, k, d)
        PROVE  RiskInv'
    BY <1>3, DecideRiskInv
  <1>4. CASE Risks!ReplaceDocument
    BY <1>4, ReplaceRiskDocumentInv
  <1>5. model \in Model
    BY DEF RiskInv
  <1>6. CASE Risks!CalculateReserve
    BY <1>1, <1>5, <1>6 DEF Risks!CalculateReserve
  <1>7. CASE Risks!ConfirmSet
    BY <1>1, <1>5, <1>7 DEF Risks!ConfirmSet
  <1>8. ASSUME NEW v \in Model, Risks!BindModel(v)
        PROVE  RiskInv'
    BY <1>1, <1>5, <1>8 DEF Risks!BindModel
  <1>9. ASSUME NEW k \in RiskKey, Risks!Dispute(k)
        PROVE  RiskInv'
    BY <1>1, <1>5, <1>9 DEF Risks!Dispute
  <1>10. CASE UNCHANGED Risks!riskVars
    BY <1>1, <1>5, <1>10 DEF Risks!riskVars
  <1> QED BY <1>2, <1>3, <1>4, <1>6, <1>7, <1>8, <1>9, <1>10 DEF Risks!RiskNext

LEMMA RiskHolds ==
    ASSUME RiskInv
    PROVE  Risks!RiskTypeOK /\ Risks!ReserveStands
  <1>1. Risks!RiskTypeOK
    <2>1. \A k \in RiskKey : DOMAIN riskReviews[k] = DOMAIN items[k]
      BY LenProperties DEF RiskInv, ReviewedOnce
    <2> QED BY <2>1 DEF Risks!RiskTypeOK, RiskInv
  <1>2. ASSUME Risks!RiskGate
        PROVE  DOMAIN calculation.inputs = Risks!Registered
    <2>1. calculation = [inputs |-> Risks!Signature, model |-> model, docset |-> docset]
      BY <1>2 DEF Risks!RiskGate
    <2>2. calculation.inputs = Risks!Signature
      BY <2>1
    <2> QED BY <2>2 DEF Risks!Signature
  <1>3. ASSUME Risks!RiskGate, NEW k \in Risks!Registered
        PROVE  /\ Risks!CurrentItem(k).marked = 0 /\ Risks!CurrentItem(k).docset = docset
               /\ \E a \in {b \in riskApprovals : b.of = <<k, Len(items[k])>>} :
                     /\ {b \in riskApprovals : b.of = <<k, Len(items[k])>>} = {a}
                     /\ a.by # Risks!CurrentItem(k).by
    <2> DEFINE a == [of |-> <<k, Len(items[k])>>, by |-> Risks!CurrentItem(k).reviewer,
                     decision |-> "APPROVED"]
    <2>0. Risks!ItemVerifies(k) /\ k \in RiskKey /\ items[k] # <<>>
      BY <1>3 DEF Risks!RiskGate, Risks!Calculable, Risks!Registered
    <2>1. a \in riskApprovals /\ a.by # Risks!CurrentItem(k).by /\ a.of = <<k, Len(items[k])>>
          /\ Risks!CurrentItem(k).docset = docset
      BY <2>0 DEF Risks!ItemVerifies
    <2> HIDE DEF a
    <2>2. {b \in riskApprovals : b.of = <<k, Len(items[k])>>} = {a}
      BY <2>1 DEF RiskInv, ReviewedOnce
    <2>3. Risks!CurrentItem(k).marked = 0
      BY <2>0, <2>1, CurrentItemTyped DEF RiskInv, Unmarked
    <2> QED BY <2>1, <2>2, <2>3
  <1>4. \A k \in Risks!Registered : \A i \in 1 .. Len(items[k]) - 1 : riskReviews[k][i] = "SUPERSEDED"
    BY DEF Risks!Registered, RiskInv, ReviewedOnce
  <1> QED BY <1>1, <1>2, <1>3, <1>4 DEF Risks!ReserveStands

-----------------------------------------------------------------------------
(* A contract term.                                                         *)

TaskStatus == {"none", "PENDING", "APPROVED", "REJECTED", "SUPERSEDED"}
Closed == {"none", "SUPERSEDED"}

\* A revision carries the review of an earlier submission, or of its own.
Rooted(rows) ==
    /\ rows \in Seq(Contract!TermRow) /\ Len(rows) <= MaxTerms
    /\ \A i \in 1 .. Len(rows) :
          rows[i].root \in 1 .. i /\ rows[rows[i].root].root = rows[i].root

\* Tasks belong to revisions, and only those of the current one are open.
TasksStand(rows, review, cost) ==
    /\ review \in [Contract!Index -> TaskStatus] /\ cost \in [Contract!Index -> TaskStatus]
    /\ \A i \in Contract!Index :
          /\ review[i] # "none" => i \in 1 .. Len(rows)
          /\ review[i] \notin Closed => i = rows[Len(rows)].root
          /\ cost[i] # "none" => i \in 1 .. Len(rows) /\ rows[i].proposer # Nobody
          /\ cost[i] \notin Closed => i = Len(rows)

\* No proposer approved the cost that was proposed.
PricedByAnother(rows, decisions) ==
    \A a \in decisions :
        /\ a.by \in Person
        /\ a.kind = "cost" => a.of \in 1 .. Len(rows) /\ rows[a.of].proposer # a.by

\* The inductive invariant.
TermInv ==
    /\ Rooted(terms) /\ rules \in Rules /\ docset \in 1 .. MaxSets
    /\ DOMAIN termTasks = {"review", "cost"}
    /\ TasksStand(terms, termTasks.review, termTasks.cost)
    /\ PricedByAnother(terms, termApprovals)
    /\ terms # <<>> => Unmarked(terms[Len(terms)], docset)

LEMMA TermInitInv ==
    ASSUME ContractConstants, Contract!TermInit
    PROVE  TermInv
  <1>1. /\ terms = <<>> /\ termTasks = [review |-> Contract!NoTasks, cost |-> Contract!NoTasks]
        /\ termApprovals = {} /\ rules \in Rules /\ docset = 1
    BY DEF Contract!TermInit
  <1>2. Rooted(terms)
    <2>1. terms \in Seq(Contract!TermRow) /\ Len(terms) = 0
      BY <1>1, EmptySeq
    <2> QED BY <2>1 DEF Rooted, ContractConstants
  <1>3. DOMAIN termTasks = {"review", "cost"}
    BY <1>1
  <1>4. TasksStand(terms, termTasks.review, termTasks.cost)
    BY <1>1 DEF TasksStand, Contract!NoTasks, TaskStatus, Closed
  <1>5. PricedByAnother(terms, termApprovals)
    BY <1>1 DEF PricedByAnother
  <1>6. docset \in 1 .. MaxSets
    BY <1>1 DEF ContractConstants
  <1> QED BY <1>1, <1>2, <1>3, <1>4, <1>5, <1>6 DEF TermInv

LEMMA CurrentTermTyped ==
    ASSUME TermInv, terms # <<>>
    PROVE  /\ Len(terms) \in 1 .. Len(terms) /\ Len(terms) \in Contract!Index
           /\ Contract!Current = terms[Len(terms)] /\ Contract!Current \in Contract!TermRow
           /\ Contract!Current.root \in 1 .. Len(terms)
  <1>1. /\ terms \in Seq(Contract!TermRow) /\ Len(terms) <= MaxTerms
        /\ Len(terms) \in 1 .. Len(terms) /\ Len(terms) \in Nat
    BY HasLast DEF TermInv, Rooted
  <1>2. Contract!Current = terms[Len(terms)] /\ Contract!Current \in Contract!TermRow
    BY <1>1, HasLast DEF Contract!Current
  <1>3. Len(terms) \in Contract!Index
    <2>1. Contract!Current.root \in 1 .. MaxTerms
      BY <1>2 DEF Contract!TermRow, Contract!Index
    <2> QED BY <1>1, <2>1 DEF Contract!Index
  <1>4. Contract!Current.root \in 1 .. Len(terms)
    BY <1>1, <1>2 DEF TermInv, Rooted
  <1> QED BY <1>1, <1>2, <1>3, <1>4

\* Revisions that keep their root and proposer.
KeepRoots(rows, newRows) ==
    /\ newRows \in Seq(Contract!TermRow) /\ Len(newRows) = Len(rows)
    /\ \A i \in 1 .. Len(rows) :
          newRows[i].root = rows[i].root /\ newRows[i].proposer = rows[i].proposer

LEMMA RootsKept ==
    ASSUME NEW rows, NEW newRows, NEW review, NEW cost, NEW decisions,
           Rooted(rows), KeepRoots(rows, newRows),
           TasksStand(rows, review, cost), PricedByAnother(rows, decisions)
    PROVE  /\ Rooted(newRows) /\ TasksStand(newRows, review, cost)
           /\ PricedByAnother(newRows, decisions)
  <1>1. Len(rows) \in Nat /\ Len(newRows) = Len(rows)
    BY LenProperties DEF Rooted, KeepRoots
  <1>2. Rooted(newRows)
    <2> SUFFICES ASSUME NEW i \in 1 .. Len(rows)
                 PROVE  /\ newRows[i].root \in 1 .. i
                        /\ newRows[newRows[i].root].root = newRows[i].root
      BY <1>1 DEF Rooted, KeepRoots
    <2>1. rows[i].root \in 1 .. i /\ rows[rows[i].root].root = rows[i].root
      BY DEF Rooted
    <2>2. rows[i].root \in 1 .. Len(rows)
      BY <1>1, <2>1
    <2> QED BY <2>1, <2>2 DEF KeepRoots
  <1>3. TasksStand(newRows, review, cost)
    <2>1. \A i \in Contract!Index : review[i] \notin Closed => Len(rows) \in 1 .. Len(rows)
      <3> SUFFICES ASSUME NEW i \in Contract!Index, review[i] \notin Closed
                   PROVE  Len(rows) \in 1 .. Len(rows)
        OBVIOUS
      <3>1. i \in 1 .. Len(rows)
        BY DEF TasksStand, Closed
      <3> QED BY <1>1, <3>1
    <2> QED BY <1>1, <2>1 DEF TasksStand, KeepRoots
  <1>4. PricedByAnother(newRows, decisions)
    BY <1>1 DEF PricedByAnother, KeepRoots
  <1> QED BY <1>2, <1>3, <1>4

\* A revision more: a submission of its own, or a copy of the current one.
AddsRevision(rows, newRows, n, row) ==
    /\ n = Len(rows) + 1 /\ n \in Contract!Index /\ MaxTerms \in Nat
    /\ newRows = Append(rows, row) /\ row \in Contract!TermRow
    /\ row.root = n \/ (rows # <<>> /\ row.root = rows[Len(rows)].root)

LEMMA RevisionAdded ==
    ASSUME NEW rows, NEW newRows, NEW n, NEW row, NEW decisions,
           Rooted(rows), PricedByAnother(rows, decisions), AddsRevision(rows, newRows, n, row)
    PROVE  /\ Rooted(newRows) /\ PricedByAnother(newRows, decisions)
           /\ Len(newRows) = n /\ n \in 1 .. n /\ newRows[n] = row /\ newRows # <<>>
           /\ \A i \in 1 .. Len(rows) : newRows[i] = rows[i]
  <1>0. /\ n = Len(rows) + 1 /\ n \in Contract!Index /\ MaxTerms \in Nat
        /\ newRows = Append(rows, row) /\ row \in Contract!TermRow
        /\ row.root = n \/ (rows # <<>> /\ row.root = rows[Len(rows)].root)
    BY DEF AddsRevision
  <1>1. rows \in Seq(Contract!TermRow) /\ Len(rows) \in Nat
    BY LenProperties DEF Rooted
  <1>2. /\ newRows \in Seq(Contract!TermRow) /\ Len(newRows) = n
        /\ newRows[n] = row /\ newRows # <<>>
        /\ \A i \in 1 .. Len(rows) : newRows[i] = rows[i]
    BY <1>0, <1>1, Longer
  <1>3. n \in 1 .. n /\ n <= MaxTerms
    BY <1>0, <1>1 DEF Contract!Index
  <1>4. ASSUME NEW i \in 1 .. n
        PROVE  newRows[i].root \in 1 .. i /\ newRows[newRows[i].root].root = newRows[i].root
    <2>1. CASE i \in 1 .. Len(rows)
      <3>1. rows[i].root \in 1 .. i /\ rows[rows[i].root].root = rows[i].root
        BY <1>0, <2>1 DEF Rooted
      <3>2. rows[i].root \in 1 .. Len(rows)
        BY <1>0, <1>1, <2>1, <3>1
      <3> QED BY <1>0, <1>2, <2>1, <3>1, <3>2
    <2>2. CASE i = n /\ row.root = n
      BY <1>0, <1>2, <1>3, <2>2
    <2>3. CASE i = n /\ rows # <<>> /\ row.root = rows[Len(rows)].root
      <3>1. Len(rows) \in 1 .. Len(rows)
        BY <1>0, <1>1, <2>3, HasLast
      <3>2. row.root \in 1 .. Len(rows) /\ rows[row.root].root = row.root
        BY <1>0, <2>3, <3>1 DEF Rooted
      <3>3. row.root \in 1 .. n
        BY <1>0, <1>1, <3>2
      <3> QED BY <1>0, <1>2, <2>3, <3>2, <3>3
    <2> QED BY <1>0, <1>1, <2>1, <2>2, <2>3
  <1>5. Rooted(newRows)
    BY <1>0, <1>2, <1>3, <1>4 DEF Rooted
  <1>6. PricedByAnother(newRows, decisions)
    <2>1. \A i \in 1 .. Len(rows) : i \in 1 .. n
      BY <1>0, <1>1
    <2> QED BY <1>0, <1>2, <2>1 DEF PricedByAnother
  <1> QED BY <1>0, <1>2, <1>3, <1>5, <1>6

\* The task of a revision that is replaced.
LEMMA Retired ==
    ASSUME NEW f \in [Contract!Index -> TaskStatus], NEW k,
           \A i \in Contract!Index : f[i] \notin Closed => i = k,
           NEW g, g = [f EXCEPT ![k] = Contract!SupersedeTask(@)]
    PROVE  /\ g \in [Contract!Index -> TaskStatus]
           /\ \A i \in Contract!Index : g[i] \in Closed /\ (g[i] # "none" => f[i] # "none")
  <1>1. \A s \in TaskStatus : /\ Contract!SupersedeTask(s) \in TaskStatus \cap Closed
                              /\ Contract!SupersedeTask(s) # "none" => s # "none"
    BY DEF Contract!SupersedeTask, TaskStatus, Closed
  <1> QED BY <1>1

LEMMA SubmitTermInv ==
    ASSUME ContractConstants, TermInv, NEW p \in Person, Contract!SubmitTerm(p)
    PROVE  TermInv'
  <1> DEFINE n == Len(terms) + 1
             row == [by |-> p, rules |-> rules, docset |-> docset, root |-> n,
                     verified |-> FALSE, resolved |-> FALSE, decision |-> "none",
                     reviewer |-> Nobody, proposer |-> Nobody, approver |-> Nobody, marked |-> 0]
             review == IF terms = <<>> THEN termTasks.review
                       ELSE Contract!ReviewSuperseded(Contract!Current.root)
             cost == IF terms = <<>> THEN termTasks.cost ELSE Contract!CostSuperseded(Len(terms))
  <1>1. /\ n \in Contract!Index /\ terms' = Append(terms, row)
        /\ termTasks' = [review |-> [review EXCEPT ![n] = "PENDING"], cost |-> cost]
        /\ UNCHANGED <<termApprovals, rules, docset>>
    BY DEF Contract!SubmitTerm
  <1>2. row \in Contract!TermRow
    BY <1>1 DEF Contract!TermRow, TermInv, ContractConstants
  <1>3. /\ Rooted(terms') /\ PricedByAnother(terms', termApprovals)
        /\ Len(terms') = n /\ terms'[n] = row
        /\ \A i \in 1 .. Len(terms) : terms'[i] = terms[i]
    <2>1. AddsRevision(terms, terms', n, row)
      BY <1>1, <1>2 DEF AddsRevision, ContractConstants
    <2>2. Rooted(terms) /\ PricedByAnother(terms, termApprovals)
      BY DEF TermInv
    <2> QED BY <2>1, <2>2, RevisionAdded
  <1>4. Len(terms) \in Nat /\ TasksStand(terms, termTasks.review, termTasks.cost)
    BY LenProperties DEF TermInv, Rooted
  <1>5. /\ review \in [Contract!Index -> TaskStatus]
        /\ \A i \in Contract!Index : /\ review[i] \in Closed
                                     /\ review[i] # "none" => i \in 1 .. Len(terms)
    <2>1. CASE terms = <<>>
      <3>1. review = termTasks.review /\ Len(terms) = 0
        BY <2>1
      <3> QED BY <1>4, <3>1 DEF TasksStand, Closed
    <2>2. CASE terms # <<>>
      <3>1. review = [termTasks.review EXCEPT ![Contract!Current.root] = Contract!SupersedeTask(@)]
        BY <2>2 DEF Contract!ReviewSuperseded
      <3>2. \A i \in Contract!Index : termTasks.review[i] \notin Closed => i = Contract!Current.root
        BY <1>4, <2>2, CurrentTermTyped DEF TasksStand
      <3>3. termTasks.review \in [Contract!Index -> TaskStatus]
        BY <1>4 DEF TasksStand
      <3> QED BY <1>4, <3>1, <3>2, <3>3, Retired DEF TasksStand
    <2> QED BY <2>1, <2>2
  <1>6. /\ cost \in [Contract!Index -> TaskStatus]
        /\ \A i \in Contract!Index : /\ cost[i] \in Closed
                                     /\ cost[i] # "none" => /\ i \in 1 .. Len(terms)
                                                            /\ terms[i].proposer # Nobody
    <2>1. CASE terms = <<>>
      <3>1. cost = termTasks.cost /\ Len(terms) = 0
        BY <2>1
      <3> QED BY <1>4, <3>1 DEF TasksStand, Closed
    <2>2. CASE terms # <<>>
      <3>1. cost = [termTasks.cost EXCEPT ![Len(terms)] = Contract!SupersedeTask(@)]
        BY <2>2 DEF Contract!CostSuperseded
      <3>2. \A i \in Contract!Index : termTasks.cost[i] \notin Closed => i = Len(terms)
        BY <1>4 DEF TasksStand
      <3>3. termTasks.cost \in [Contract!Index -> TaskStatus]
        BY <1>4 DEF TasksStand
      <3> QED BY <1>4, <3>1, <3>2, <3>3, Retired DEF TasksStand
    <2> QED BY <2>1, <2>2
  <1>7. /\ row.root = n /\ row.docset = docset /\ row.marked = 0
    OBVIOUS
  <1> HIDE DEF row, review, cost
  <1>8. /\ DOMAIN termTasks' = {"review", "cost"}
        /\ termTasks'.review = [review EXCEPT ![n] = "PENDING"] /\ termTasks'.cost = cost
    BY <1>1
  <1>9. TasksStand(terms', termTasks'.review, termTasks'.cost)
    <2>1. termTasks'.review \in [Contract!Index -> TaskStatus]
      BY <1>5, <1>8 DEF TaskStatus
    <2>2. ASSUME NEW i \in Contract!Index
          PROVE  /\ termTasks'.review[i] # "none" => i \in 1 .. n
                 /\ termTasks'.review[i] \notin Closed => i = row.root
      BY <1>1, <1>4, <1>5, <1>7, <1>8
    <2>3. ASSUME NEW i \in Contract!Index
          PROVE  /\ cost[i] # "none" => i \in 1 .. n /\ terms'[i].proposer # Nobody
                 /\ cost[i] \notin Closed => i = n
      BY <1>3, <1>4, <1>6
    <2> QED BY <1>3, <1>6, <1>8, <2>1, <2>2, <2>3 DEF TasksStand
  <1>10. Unmarked(terms'[Len(terms')], docset')
    BY <1>1, <1>3, <1>7 DEF Unmarked, TermInv
  <1> QED BY <1>1, <1>3, <1>8, <1>9, <1>10
          DEF TermInv, Rooted, TasksStand, PricedByAnother, Unmarked

\* The current revision is settled: the tasks of its review or its cost too.
LEMMA TermSettled ==
    ASSUME TermInv, terms # <<>>, NEW new \in Contract!TermRow,
           new.root = Contract!Current.root, new.proposer = Contract!Current.proposer,
           new.docset = Contract!Current.docset, new.marked = Contract!Current.marked,
           terms' = [terms EXCEPT ![Len(terms)] = new]
    PROVE  /\ KeepRoots(terms, terms') /\ terms' # <<>>
           /\ Unmarked(terms'[Len(terms')], docset)
  <1>1. /\ terms \in Seq(Contract!TermRow) /\ Len(terms) \in 1 .. Len(terms)
        /\ Contract!Current = terms[Len(terms)]
    BY CurrentTermTyped DEF TermInv, Rooted
  <1>2. /\ terms' \in Seq(Contract!TermRow) /\ Len(terms') = Len(terms)
        /\ \A i \in 1 .. Len(terms) : terms'[i] = IF i = Len(terms) THEN new ELSE terms[i]
    BY <1>1, ExceptSeq
  <1>3. KeepRoots(terms, terms')
    BY <1>1, <1>2 DEF KeepRoots
  <1>4. terms' # <<>>
    BY <1>1, <1>2, HasLast
  <1> QED BY <1>1, <1>2, <1>3, <1>4 DEF TermInv, Unmarked

LEMMA DecideTermInv ==
    ASSUME ContractConstants, TermInv, NEW p \in Person, NEW d \in {"APPROVED", "REJECTED"},
           Contract!DecideTerm(p, d)
    PROVE  TermInv'
  <1> DEFINE new == [Contract!Current EXCEPT !.verified = (d = "APPROVED"),
                                             !.decision = d, !.reviewer = p]
  <1>1. /\ terms # <<>> /\ UNCHANGED <<rules, docset>>
    BY DEF Contract!DecideTerm, Contract!Reviewable
  <1>2. CASE UNCHANGED <<terms, termTasks, termApprovals>>
    BY <1>1, <1>2 DEF TermInv, Rooted, TasksStand, PricedByAnother, Unmarked
  <1>3. CASE /\ terms' = [terms EXCEPT ![Len(terms)] = new]
             /\ termTasks' = [termTasks EXCEPT !.review[Contract!Current.root] = d]
             /\ termApprovals' = termApprovals
                    \cup {Contract!Approval("review", Contract!Current.root, p, d)}
    <2>1. /\ Contract!Current \in Contract!TermRow /\ Contract!Current = terms[Len(terms)]
          /\ Contract!Current.root \in 1 .. Len(terms)
      BY <1>1, CurrentTermTyped
    <2>2. /\ new \in Contract!TermRow /\ new.root = Contract!Current.root
          /\ new.proposer = Contract!Current.proposer
          /\ new.docset = Contract!Current.docset /\ new.marked = Contract!Current.marked
      BY <2>1 DEF Contract!TermRow
    <2> HIDE DEF new
    <2>3. /\ KeepRoots(terms, terms') /\ terms' # <<>>
          /\ Unmarked(terms'[Len(terms')], docset)
      BY <1>1, <1>3, <2>2, TermSettled
    <2>4. /\ DOMAIN termTasks' = {"review", "cost"}
          /\ termTasks'.review = [termTasks.review EXCEPT ![Contract!Current.root] = d]
          /\ termTasks'.cost = termTasks.cost
      BY <1>3 DEF TermInv
    <2>5. TasksStand(terms, termTasks'.review, termTasks'.cost)
      <3>1. TasksStand(terms, termTasks.review, termTasks.cost)
        BY DEF TermInv
      <3>2. termTasks'.review \in [Contract!Index -> TaskStatus]
        BY <2>4, <3>1 DEF TasksStand, TaskStatus
      <3> QED BY <2>1, <2>4, <3>1, <3>2 DEF TasksStand
    <2>6. PricedByAnother(terms, termApprovals')
      BY <1>3 DEF TermInv, PricedByAnother, Contract!Approval
    <2>7. Rooted(terms)
      BY DEF TermInv
    <2>8. /\ Rooted(terms') /\ TasksStand(terms', termTasks'.review, termTasks'.cost)
          /\ PricedByAnother(terms', termApprovals')
      BY <2>3, <2>5, <2>6, <2>7, RootsKept
    <2>9. rules' \in Rules /\ docset' \in 1 .. MaxSets /\ docset' = docset
      BY <1>1 DEF TermInv
    <2> QED BY <2>3, <2>4, <2>8, <2>9 DEF TermInv, Rooted, TasksStand, PricedByAnother, Unmarked
  <1> QED BY <1>2, <1>3 DEF Contract!DecideTerm

LEMMA ProposeCostImpactInv ==
    ASSUME ContractConstants, TermInv, NEW p \in Person, Contract!ProposeCostImpact(p)
    PROVE  TermInv'
  <1> DEFINE n == Len(terms) + 1
             new == [Contract!Current EXCEPT !.resolved = FALSE, !.proposer = p]
             cost == Contract!CostSuperseded(Len(terms))
  <1>1. /\ terms # <<>> /\ n \in Contract!Index /\ UNCHANGED <<termApprovals, rules, docset>>
    BY DEF Contract!ProposeCostImpact
  <1>2. CASE UNCHANGED <<terms, termTasks>>
    BY <1>1, <1>2 DEF TermInv, Rooted, TasksStand, PricedByAnother, Unmarked
  <1>3. CASE /\ terms' = Append(terms, new)
             /\ termTasks' = [termTasks EXCEPT !.cost = [cost EXCEPT ![n] = "PENDING"]]
    <2>1. /\ Contract!Current \in Contract!TermRow /\ Contract!Current = terms[Len(terms)]
          /\ Contract!Current.root \in 1 .. Len(terms) /\ Len(terms) \in Nat
          /\ Len(terms) \in Contract!Index
      BY <1>1, CurrentTermTyped DEF Contract!Index
    <2>2. /\ new \in Contract!TermRow /\ new.root = Contract!Current.root
          /\ new.proposer = p /\ p # Nobody
          /\ new.docset = Contract!Current.docset /\ new.marked = Contract!Current.marked
      BY <2>1 DEF Contract!TermRow, ContractConstants
    <2> HIDE DEF new
    <2>3. /\ Rooted(terms') /\ PricedByAnother(terms', termApprovals)
          /\ Len(terms') = n /\ n \in 1 .. n /\ terms'[n] = new /\ terms' # <<>>
          /\ \A i \in 1 .. Len(terms) : terms'[i] = terms[i]
      <3>1. AddsRevision(terms, terms', n, new)
        BY <1>1, <1>3, <2>1, <2>2 DEF AddsRevision, ContractConstants
      <3>2. Rooted(terms) /\ PricedByAnother(terms, termApprovals)
        BY DEF TermInv
      <3> QED BY <3>1, <3>2, RevisionAdded
    <2>4. TasksStand(terms, termTasks.review, termTasks.cost)
      BY DEF TermInv
    <2>5. /\ cost \in [Contract!Index -> TaskStatus]
          /\ \A i \in Contract!Index : /\ cost[i] \in Closed
                                       /\ cost[i] # "none" => /\ i \in 1 .. Len(terms)
                                                              /\ terms[i].proposer # Nobody
      <3>1. cost = [termTasks.cost EXCEPT ![Len(terms)] = Contract!SupersedeTask(@)]
        BY DEF Contract!CostSuperseded
      <3>2. \A i \in Contract!Index : termTasks.cost[i] \notin Closed => i = Len(terms)
        BY <2>4 DEF TasksStand
      <3>3. termTasks.cost \in [Contract!Index -> TaskStatus]
        BY <2>4 DEF TasksStand
      <3>4. \A i \in Contract!Index : /\ cost[i] \in Closed
                                      /\ cost[i] # "none" => termTasks.cost[i] # "none"
        BY <3>1, <3>2, <3>3, Retired
      <3>5. cost \in [Contract!Index -> TaskStatus]
        BY <3>1, <3>2, <3>3, Retired
      <3>6. \A i \in Contract!Index : termTasks.cost[i] # "none" => /\ i \in 1 .. Len(terms)
                                                                    /\ terms[i].proposer # Nobody
        BY <2>4 DEF TasksStand
      <3> HIDE DEF cost
      <3> QED BY <3>4, <3>5, <3>6
    <2> HIDE DEF cost
    <2>6. /\ DOMAIN termTasks' = {"review", "cost"}
          /\ termTasks'.review = termTasks.review
          /\ termTasks'.cost = [cost EXCEPT ![n] = "PENDING"]
      BY <1>3 DEF TermInv
    <2>7. TasksStand(terms', termTasks'.review, termTasks'.cost)
      <3>1. /\ termTasks'.cost \in [Contract!Index -> TaskStatus]
            /\ termTasks'.review \in [Contract!Index -> TaskStatus]
        BY <2>4, <2>5, <2>6 DEF TaskStatus, TasksStand
      <3>2. ASSUME NEW i \in Contract!Index
            PROVE  /\ termTasks'.review[i] # "none" => i \in 1 .. n
                   /\ termTasks'.review[i] \notin Closed => i = new.root
        BY <2>1, <2>2, <2>4, <2>6 DEF TasksStand
      <3>3. ASSUME NEW i \in Contract!Index
            PROVE  /\ termTasks'.cost[i] # "none" => i \in 1 .. n /\ terms'[i].proposer # Nobody
                   /\ termTasks'.cost[i] \notin Closed => i = n
        <4>1. CASE i = n
          BY <2>1, <2>2, <2>3, <4>1
        <4>2. CASE i # n
          <5>1. termTasks'.cost[i] = cost[i]
            BY <2>5, <2>6, <4>2
          <5>2. \A j \in 1 .. Len(terms) : j \in 1 .. n
            BY <2>1
          <5> QED BY <2>3, <2>5, <5>1, <5>2
        <4> QED BY <4>1, <4>2
      <3> QED BY <2>3, <3>1, <3>2, <3>3 DEF TasksStand
    <2>8. Unmarked(terms'[Len(terms')], docset')
      BY <1>1, <2>1, <2>2, <2>3 DEF Unmarked, TermInv
    <2>9. rules' \in Rules /\ docset' \in 1 .. MaxSets
      BY <1>1 DEF TermInv
    <2> QED BY <1>1, <2>3, <2>6, <2>7, <2>8, <2>9
            DEF TermInv, Rooted, TasksStand, PricedByAnother, Unmarked
  <1> QED BY <1>2, <1>3 DEF Contract!ProposeCostImpact

LEMMA ApproveCostImpactInv ==
    ASSUME TermInv, NEW p \in Person, NEW d \in {"APPROVED", "REJECTED"},
           Contract!ApproveCostImpact(p, d)
    PROVE  TermInv'
  <1> DEFINE n == Len(terms)
  <1>1. /\ terms # <<>> /\ termTasks.cost[n] = "PENDING" /\ p # Contract!Current.proposer
        /\ termTasks' = [termTasks EXCEPT !.cost[n] = d]
        /\ termApprovals' = termApprovals \cup {Contract!Approval("cost", n, p, d)}
        /\ UNCHANGED <<terms, rules, docset>>
    BY DEF Contract!ApproveCostImpact
  <1>2. /\ n \in 1 .. n /\ n \in Contract!Index /\ Contract!Current = terms[n]
    BY <1>1, CurrentTermTyped
  <1>3. /\ DOMAIN termTasks' = {"review", "cost"} /\ termTasks'.review = termTasks.review
        /\ termTasks'.cost = [termTasks.cost EXCEPT ![n] = d]
    BY <1>1 DEF TermInv
  <1>4. TasksStand(terms, termTasks'.review, termTasks'.cost)
    <2>1. TasksStand(terms, termTasks.review, termTasks.cost)
      BY DEF TermInv
    <2>2. termTasks'.cost \in [Contract!Index -> TaskStatus]
      BY <1>3, <2>1 DEF TasksStand, TaskStatus
    <2>3. termTasks.cost[n] # "none"
      BY <1>1
    <2> QED BY <1>2, <1>3, <2>1, <2>2, <2>3 DEF TasksStand
  <1>5. PricedByAnother(terms, termApprovals')
    BY <1>1, <1>2 DEF TermInv, PricedByAnother, Contract!Approval
  <1> QED BY <1>1, <1>3, <1>4, <1>5 DEF TermInv, Rooted, TasksStand, PricedByAnother, Unmarked

LEMMA FinalizeCostImpactInv ==
    ASSUME TermInv, Contract!FinalizeCostImpact
    PROVE  TermInv'
  <1>1. /\ terms # <<>> /\ UNCHANGED <<termTasks, termApprovals, rules, docset>>
    BY DEF Contract!FinalizeCostImpact
  <1>2. CASE UNCHANGED terms
    BY <1>1, <1>2 DEF TermInv, Rooted, TasksStand, PricedByAnother, Unmarked
  <1>3. ASSUME NEW new, new \in Contract!TermRow, new.root = Contract!Current.root,
               new.proposer = Contract!Current.proposer,
               new.docset = Contract!Current.docset, new.marked = Contract!Current.marked,
               terms' = [terms EXCEPT ![Len(terms)] = new]
        PROVE  TermInv'
    <2>1. /\ KeepRoots(terms, terms') /\ terms' # <<>>
          /\ Unmarked(terms'[Len(terms')], docset)
      BY <1>1, <1>3, TermSettled
    <2>2. /\ Rooted(terms) /\ TasksStand(terms, termTasks.review, termTasks.cost)
          /\ PricedByAnother(terms, termApprovals)
      BY DEF TermInv
    <2>3. /\ Rooted(terms') /\ TasksStand(terms', termTasks.review, termTasks.cost)
          /\ PricedByAnother(terms', termApprovals)
      BY <2>1, <2>2, RootsKept
    <2> QED BY <1>1, <2>1, <2>3 DEF TermInv, Rooted, TasksStand, PricedByAnother, Unmarked
  <1>4. CASE terms' # terms
    <2>1. PICK a \in termApprovals :
              terms' = [terms EXCEPT ![Len(terms)] =
                           [Contract!Current EXCEPT !.resolved = TRUE, !.approver = a.by]]
      BY <1>4 DEF Contract!FinalizeCostImpact
    <2> DEFINE new == [Contract!Current EXCEPT !.resolved = TRUE, !.approver = a.by]
    <2>2. Contract!Current \in Contract!TermRow /\ a.by \in Person
      BY <1>1, CurrentTermTyped DEF TermInv, PricedByAnother
    <2>3. /\ new \in Contract!TermRow /\ new.root = Contract!Current.root
          /\ new.proposer = Contract!Current.proposer
          /\ new.docset = Contract!Current.docset /\ new.marked = Contract!Current.marked
      BY <2>2 DEF Contract!TermRow
    <2> QED BY <1>3, <2>1, <2>3
  <1> QED BY <1>2, <1>4

LEMMA ReplaceTermDocumentInv ==
    ASSUME ContractConstants, TermInv, Contract!ReplaceDocument
    PROVE  TermInv'
  <1> DEFINE row(i) == IF i = Len(terms) THEN Contract!Invalidated(terms[i]) ELSE terms[i]
  <1>1. docset < MaxSets /\ UNCHANGED <<termApprovals, rules>>
    BY DEF Contract!ReplaceDocument
  <1>2. CASE UNCHANGED <<terms, termTasks, docset>>
    BY <1>1, <1>2 DEF TermInv, Rooted, TasksStand, PricedByAnother, Unmarked
  <1>3. CASE /\ terms' = [i \in 1 .. Len(terms) |-> row(i)]
             /\ termTasks' = [k \in DOMAIN termTasks |->
                    [i \in Contract!Index |-> Contract!SupersedeTask(termTasks[k][i])]]
             /\ docset' = docset + 1
    <2>1. /\ terms \in Seq(Contract!TermRow) /\ Len(terms) \in Nat
          /\ \A i \in 1 .. Len(terms) : terms[i] \in Contract!TermRow
      BY HasLast DEF TermInv, Rooted
    <2>2. docset \in 1 .. MaxSets /\ docset + 1 \in 1 .. MaxSets /\ docset \in Nat
      BY <1>1 DEF TermInv, ContractConstants
    <2>3. \A i \in 1 .. Len(terms) :
              /\ row(i) \in Contract!TermRow /\ row(i).root = terms[i].root
              /\ row(i).proposer = terms[i].proposer /\ row(i).docset = terms[i].docset
      <3>1. \A r \in Contract!TermRow :
               /\ Contract!Invalidated(r) \in Contract!TermRow
               /\ Contract!Invalidated(r).root = r.root
               /\ Contract!Invalidated(r).proposer = r.proposer
               /\ Contract!Invalidated(r).docset = r.docset
        <4> SUFFICES ASSUME NEW r \in Contract!TermRow
                     PROVE  /\ Contract!Invalidated(r) \in Contract!TermRow
                            /\ Contract!Invalidated(r).root = r.root
                            /\ Contract!Invalidated(r).proposer = r.proposer
                            /\ Contract!Invalidated(r).docset = r.docset
          OBVIOUS
        <4>1. docset + 1 \in 0 .. MaxSets
          BY <2>2 DEF ContractConstants
        <4> HIDE DEF row
        <4>2. Contract!Invalidated(r) \in Contract!TermRow
          BY <4>1 DEF Contract!TermRow, Contract!Invalidated
        <4>3. /\ Contract!Invalidated(r).root = r.root
              /\ Contract!Invalidated(r).proposer = r.proposer
              /\ Contract!Invalidated(r).docset = r.docset
          BY DEF Contract!TermRow, Contract!Invalidated
        <4> QED BY <4>2, <4>3
      <3> QED BY <2>1, <3>1
    <2> HIDE DEF row
    <2>4. terms' \in Seq(Contract!TermRow) /\ Len(terms') = Len(terms)
      BY <1>3, <2>1, <2>3, Mapped
    <2>5. KeepRoots(terms, terms')
      BY <1>3, <2>3, <2>4 DEF KeepRoots
    <2>6. /\ DOMAIN termTasks' = {"review", "cost"}
          /\ termTasks'.review = [i \in Contract!Index |-> Contract!SupersedeTask(termTasks.review[i])]
          /\ termTasks'.cost = [i \in Contract!Index |-> Contract!SupersedeTask(termTasks.cost[i])]
      BY <1>3 DEF TermInv
    <2>7. TasksStand(terms, termTasks'.review, termTasks'.cost)
      <3>1. TasksStand(terms, termTasks.review, termTasks.cost)
        BY DEF TermInv
      <3>2. \A s \in TaskStatus : /\ Contract!SupersedeTask(s) \in TaskStatus \cap Closed
                                  /\ Contract!SupersedeTask(s) # "none" => s # "none"
        BY DEF Contract!SupersedeTask, TaskStatus, Closed
      <3>3. /\ termTasks'.review \in [Contract!Index -> TaskStatus]
            /\ termTasks'.cost \in [Contract!Index -> TaskStatus]
        BY <2>6, <3>1, <3>2 DEF TasksStand
      <3> QED BY <2>6, <3>1, <3>2, <3>3 DEF TasksStand
    <2>8. /\ Rooted(terms') /\ TasksStand(terms', termTasks'.review, termTasks'.cost)
          /\ PricedByAnother(terms', termApprovals)
      BY <2>5, <2>7, RootsKept DEF TermInv
    <2>9. ASSUME terms' # <<>>
          PROVE  Unmarked(terms'[Len(terms')], docset')
      <3>1. terms # <<>> /\ Len(terms) \in 1 .. Len(terms)
        BY <2>1, <2>4, <2>9, HasLast
      <3>2. terms[Len(terms)].docset <= docset /\ terms[Len(terms)].docset \in Nat
        BY <2>1, <3>1 DEF TermInv, Unmarked, Contract!TermRow
      <3>3. terms'[Len(terms')].docset = terms[Len(terms)].docset
        BY <1>3, <2>3, <2>4, <3>1
      <3>4. docset' = docset + 1
        BY <1>3
      <3> QED BY <2>2, <3>2, <3>3, <3>4 DEF Unmarked
    <2>10. rules' \in Rules /\ docset' \in 1 .. MaxSets
      BY <1>1, <1>3, <2>2 DEF TermInv
    <2> QED BY <1>1, <2>6, <2>8, <2>9, <2>10
            DEF TermInv, Rooted, TasksStand, PricedByAnother, Unmarked
  <1>4. CASE terms = <<>>
    BY <1>3, <1>4 DEF Contract!ReplaceDocument
  <1> QED BY <1>2, <1>3 DEF Contract!ReplaceDocument

LEMMA TermNextInv ==
    ASSUME ContractConstants, TermInv, [Contract!TermNext]_(Contract!termVars)
    PROVE  TermInv'
  <1>1. ASSUME UNCHANGED <<terms, termTasks, termApprovals, docset>>, rules' \in Rules
        PROVE  TermInv'
    BY <1>1 DEF TermInv, Rooted, TasksStand, PricedByAnother, Unmarked
  <1>2. ASSUME NEW p \in Person, Contract!SubmitTerm(p)
        PROVE  TermInv'
    BY <1>2, SubmitTermInv
  <1>3. ASSUME NEW p \in Person, Contract!ProposeCostImpact(p)
        PROVE  TermInv'
    BY <1>3, ProposeCostImpactInv
  <1>4. ASSUME NEW p \in Person, NEW d \in {"APPROVED", "REJECTED"}, Contract!DecideTerm(p, d)
        PROVE  TermInv'
    BY <1>4, DecideTermInv
  <1>5. ASSUME NEW p \in Person, NEW d \in {"APPROVED", "REJECTED"},
               Contract!ApproveCostImpact(p, d)
        PROVE  TermInv'
    BY <1>5, ApproveCostImpactInv
  <1>6. CASE Contract!FinalizeCostImpact
    BY <1>6, FinalizeCostImpactInv
  <1>7. CASE Contract!ReplaceDocument
    BY <1>7, ReplaceTermDocumentInv
  <1>8. rules \in Rules
    BY DEF TermInv
  <1>9. CASE Contract!ConfirmSet
    BY <1>1, <1>8, <1>9 DEF Contract!ConfirmSet
  <1>10. CASE Contract!Conflict
    BY <1>1, <1>8, <1>10 DEF Contract!Conflict
  <1>11. ASSUME NEW v \in Rules, Contract!BindRules(v)
         PROVE  TermInv'
    BY <1>1, <1>11 DEF Contract!BindRules
  <1>12. CASE UNCHANGED Contract!termVars
    BY <1>1, <1>8, <1>12 DEF Contract!termVars
  <1> QED BY <1>2, <1>3, <1>4, <1>5, <1>6, <1>7, <1>9, <1>10, <1>11, <1>12 DEF Contract!TermNext

LEMMA TermHolds ==
    ASSUME ContractConstants, TermInv
    PROVE  Contract!TermTypeOK /\ Contract!TermStands
  <1>1. /\ terms \in Seq(Contract!TermRow) /\ Len(terms) \in Nat
        /\ DOMAIN terms = 1 .. Len(terms) /\ Len(terms) <= MaxTerms
        /\ TasksStand(terms, termTasks.review, termTasks.cost)
    BY HasLast DEF TermInv, Rooted
  <1>2. Contract!TermTypeOK
    <2>1. \A kind \in DOMAIN termTasks : kind = "review" \/ kind = "cost"
      BY DEF TermInv
    <2> QED BY <1>1, <2>1 DEF Contract!TermTypeOK, TasksStand
  <1>3. ASSUME Contract!PassesGate
        PROVE  /\ Contract!Current.by # Contract!Current.reviewer
               /\ Contract!Current.proposer \notin {Nobody, Contract!Current.approver}
               /\ Contract!Current.docset = docset /\ Contract!Current.marked = 0
    <2>1. /\ terms # <<>> /\ Contract!TermVerifies(Contract!Current)
          /\ termTasks.cost[Len(terms)] = "APPROVED"
          /\ Contract!Approval("cost", Len(terms), Contract!Current.approver, "APPROVED")
                \in termApprovals
      BY <1>3 DEF Contract!PassesGate
    <2>2. Len(terms) \in Contract!Index /\ Contract!Current = terms[Len(terms)]
      BY <2>1, CurrentTermTyped
    <2>3. Contract!Current.proposer # Nobody
      BY <1>1, <2>1, <2>2 DEF TasksStand
    <2>4. Contract!Current.proposer # Contract!Current.approver
      BY <2>1, <2>2 DEF TermInv, PricedByAnother, Contract!Approval
    <2>5. /\ Contract!Current.by # Contract!Current.reviewer
          /\ Contract!Current.docset = docset
      BY <2>1 DEF Contract!TermVerifies
    <2>6. Contract!Current.marked = 0
      BY <2>1, <2>2, <2>5 DEF TermInv, Unmarked
    <2> QED BY <2>3, <2>4, <2>5, <2>6
  <1>4. ASSUME NEW i \in 1 .. Len(terms) - 1
        PROVE  /\ termTasks.cost[i] \in Closed
               /\ terms[i].root # Contract!Current.root => termTasks.review[i] \in Closed
    <2>0. i # Len(terms) /\ i \in 1 .. Len(terms) /\ Len(terms) \in 1 .. Len(terms)
      <3>1. \A n \in Nat : \A j \in 1 .. n - 1 : j # n /\ j \in 1 .. n /\ n \in 1 .. n
        OBVIOUS
      <3>2. Len(terms) \in Nat
        BY <1>1
      <3> QED BY <3>1, <3>2
    <2>1. i # Len(terms) /\ terms # <<>> /\ i \in 1 .. Len(terms)
      BY <1>1, <2>0, HasLast
    <2>2. i \in Contract!Index
      <3>1. Len(terms) \in Contract!Index
        BY <2>1, CurrentTermTyped
      <3> QED BY <1>1, <3>1 DEF Contract!Index, ContractConstants
    <2>3. Contract!Current = terms[Len(terms)] /\ Len(terms) \in 1 .. Len(terms)
      BY <2>1, CurrentTermTyped
    <2>4. terms[terms[Len(terms)].root].root = terms[Len(terms)].root
      BY <2>3 DEF TermInv, Rooted
    <2> QED BY <1>1, <2>1, <2>2, <2>3, <2>4 DEF TasksStand
  <1> QED BY <1>2, <1>3, <1>4 DEF Contract!TermStands, Closed

-----------------------------------------------------------------------------
(* Prices.                                                                  *)

DecisionRow == [status : {"RFQ_REQUIRED", "VERIFIED", "EXPERT_REVIEW_REQUIRED", "EXPIRED"},
                rows : SUBSET Pricing!NormalizedRow, asOf : Pricing!Day, policy : Policy,
                docset : 1 .. MaxSets]

\* An analogue is approved by somebody else than who proposed it.
FourEyesMatch(row) ==
    row.task = "APPROVED" \/ (row.status = "VERIFIED" /\ row.class = "ANALOGUE")
        => row.approver \notin {Nobody, row.proposer}

\* A decision uses rows that were normalized under its policy and hold at its
\* date, and a verified one leaves no request open.
DecisionStands(row, known, open) ==
    /\ row \in DecisionRow /\ row.rows \subseteq known
    /\ \A r \in row.rows : r.policy = row.policy /\ row.asOf <= ValidUntil[r.quote]
    /\ row.status = "VERIFIED" => open = {}

\* The inductive invariant.
PriceInv ==
    /\ normalized \subseteq Pricing!NormalizedRow /\ IsFiniteSet(normalized)
    /\ match \in Pricing!MatchRow \cup {NoRow} /\ (match # NoRow => FourEyesMatch(match))
    /\ decision # NoRow => DecisionStands(decision, normalized, rfqs) /\ evaluated > 0
    /\ evaluated \in Nat /\ pricePolicy \in Policy /\ docset \in 1 .. MaxSets
    /\ state \in {"PRICING_IN_PROGRESS", "RFQ_REQUIRED", "EXPERT_REVIEW", "BLOCKED"}

LEMMA PriceInitInv ==
    ASSUME PriceConstants, Pricing!PriceInit
    PROVE  PriceInv
  <1>1. /\ match = NoRow /\ normalized = {} /\ decision = NoRow /\ evaluated = 0
        /\ state = "PRICING_IN_PROGRESS" /\ pricePolicy \in Policy /\ docset = 1
    BY DEF Pricing!PriceInit
  <1>2. IsFiniteSet(normalized)
    BY <1>1, FS_EmptySet
  <1> QED BY <1>1, <1>2 DEF PriceInv, PriceConstants

\* Everything but the match, the evaluation or the state stays.
LEMMA MatchChanged ==
    ASSUME PriceInv, match' \in Pricing!MatchRow, FourEyesMatch(match'),
           UNCHANGED <<normalized, decision, evaluated, rfqs, state, pricePolicy, docset>>
    PROVE  PriceInv'
  BY DEF PriceInv

LEMMA AssessInv ==
    ASSUME PriceInv, NEW c \in {"EXACT", "MISMATCH"}, Pricing!Assess(c)
    PROVE  PriceInv'
  <1> DEFINE row == [class |-> c, docset |-> docset, proposer |-> Nobody, approver |-> Nobody,
                 status |-> IF c = "EXACT" THEN "VERIFIED" ELSE "REJECTED", task |-> "none"]
  <1>1. /\ match' = row
        /\ UNCHANGED <<normalized, decision, evaluated, rfqs, state, pricePolicy, docset>>
    BY DEF Pricing!Assess, Pricing!decisionVars, Pricing!boundVars
  <1>2. row \in Pricing!MatchRow
    BY DEF Pricing!MatchRow, PriceInv
  <1>3. row.task = "none" /\ row.class # "ANALOGUE"
    OBVIOUS
  <1> HIDE DEF row
  <1>4. FourEyesMatch(row)
    BY <1>3 DEF FourEyesMatch
  <1> QED BY <1>1, <1>2, <1>4, MatchChanged

LEMMA ProposeAnalogueInv ==
    ASSUME PriceInv, NEW p \in Estimator, Pricing!ProposeAnalogue(p)
    PROVE  PriceInv'
  <1> DEFINE row == [match EXCEPT !.class = "ANALOGUE", !.status = "IN_REVIEW", !.proposer = p,
                                  !.approver = Nobody, !.task = "PENDING"]
  <1>1. /\ match # NoRow /\ match' = row
        /\ UNCHANGED <<normalized, decision, evaluated, rfqs, state, pricePolicy, docset>>
    BY DEF Pricing!ProposeAnalogue, Pricing!decisionVars, Pricing!boundVars
  <1>2. match \in Pricing!MatchRow
    BY <1>1 DEF PriceInv
  <1>3. row \in Pricing!MatchRow /\ row.task = "PENDING" /\ row.status = "IN_REVIEW"
    BY <1>2 DEF Pricing!MatchRow
  <1> HIDE DEF row
  <1>4. FourEyesMatch(row)
    BY <1>3 DEF FourEyesMatch
  <1> QED BY <1>1, <1>3, <1>4, MatchChanged

LEMMA DecideAnalogueInv ==
    ASSUME PriceConstants, PriceInv, NEW p \in Estimator, NEW d \in {"APPROVED", "REJECTED"},
           Pricing!DecideAnalogue(p, d)
    PROVE  PriceInv'
  <1> DEFINE row == [match EXCEPT !.task = d, !.approver = IF d = "APPROVED" THEN p ELSE @]
  <1>1. /\ match # NoRow /\ match.proposer # p /\ match' = row
        /\ UNCHANGED <<normalized, decision, evaluated, rfqs, state, pricePolicy, docset>>
    BY DEF Pricing!DecideAnalogue, Pricing!decisionVars, Pricing!boundVars
  <1>2. match \in Pricing!MatchRow /\ FourEyesMatch(match)
    BY <1>1 DEF PriceInv
  <1>3. /\ row \in Pricing!MatchRow /\ row.task = d /\ row.status = match.status
        /\ row.class = match.class /\ row.proposer = match.proposer
        /\ row.approver = IF d = "APPROVED" THEN p ELSE match.approver
    BY <1>2 DEF Pricing!MatchRow
  <1> HIDE DEF row
  <1>4. p # Nobody
    BY DEF PriceConstants
  <1>5. FourEyesMatch(row)
    BY <1>1, <1>2, <1>3, <1>4 DEF FourEyesMatch
  <1> QED BY <1>1, <1>3, <1>5, MatchChanged

LEMMA FinalizeAnalogueInv ==
    ASSUME PriceInv, Pricing!FinalizeAnalogue
    PROVE  PriceInv'
  <1> DEFINE row == [match EXCEPT !.status = "VERIFIED"]
  <1>1. /\ match # NoRow /\ match.task = "APPROVED" /\ match' = row
        /\ UNCHANGED <<normalized, decision, evaluated, rfqs, state, pricePolicy, docset>>
    BY DEF Pricing!FinalizeAnalogue, Pricing!decisionVars, Pricing!boundVars
  <1>2. match \in Pricing!MatchRow /\ FourEyesMatch(match)
    BY <1>1 DEF PriceInv
  <1>3. /\ row \in Pricing!MatchRow /\ row.task = match.task
        /\ row.proposer = match.proposer /\ row.approver = match.approver
    BY <1>2 DEF Pricing!MatchRow
  <1> HIDE DEF row
  <1>4. FourEyesMatch(row)
    BY <1>1, <1>2, <1>3 DEF FourEyesMatch
  <1> QED BY <1>1, <1>3, <1>4, MatchChanged

LEMMA NormalizePriceInv ==
    ASSUME PriceInv, NEW q \in Quote, NEW c \in Adjustment, Pricing!NormalizePrice(q, c)
    PROVE  PriceInv'
  <1>1. /\ normalized' = normalized \cup {Pricing!Normalization(q, c)}
        /\ UNCHANGED <<match, decision, evaluated, rfqs, state, pricePolicy, docset>>
    BY DEF Pricing!NormalizePrice, Pricing!decisionVars, Pricing!boundVars
  <1>2. Pricing!Normalization(q, c) \in Pricing!NormalizedRow
    BY DEF Pricing!Normalization, Pricing!NormalizedRow, PriceInv
  <1>3. IsFiniteSet(normalized')
    BY <1>1, FS_AddElement DEF PriceInv
  <1>4. decision # NoRow => DecisionStands(decision, normalized', rfqs)
    BY <1>1 DEF PriceInv, DecisionStands
  <1>5. normalized' \subseteq Pricing!NormalizedRow
    BY <1>1, <1>2 DEF PriceInv
  <1> QED BY <1>1, <1>3, <1>4, <1>5 DEF PriceInv

LEMMA EvaluateItemPriceInv ==
    ASSUME PriceInv, NEW asOf \in Pricing!Day, NEW clear \in BOOLEAN,
           Pricing!EvaluateItemPrice(asOf, clear)
    PROVE  PriceInv'
  <1> DEFINE rows == Pricing!Eligible(asOf)
             status == Pricing!Outcome(rows, asOf)
             row == [status |-> status, rows |-> rows, asOf |-> asOf, policy |-> pricePolicy,
                     docset |-> docset]
  <1>1. /\ evaluated' = evaluated + 1 /\ decision' = row
        /\ rfqs' = Pricing!Requested(status, rows) /\ state' = Pricing!Synced(status, clear)
        /\ UNCHANGED <<match, normalized, pricePolicy, docset>>
    BY DEF Pricing!EvaluateItemPrice, Pricing!boundVars
  <1>2. status \in {"RFQ_REQUIRED", "VERIFIED", "EXPERT_REVIEW_REQUIRED"}
    BY DEF Pricing!Outcome
  <1>3. /\ rows \subseteq normalized
        /\ \A r \in rows : r.policy = pricePolicy /\ asOf <= ValidUntil[r.quote]
    BY DEF Pricing!Eligible
  <1> HIDE DEF rows, status
  <1>4. row \in DecisionRow
    BY <1>2, <1>3 DEF DecisionRow, PriceInv
  <1>5. status = "VERIFIED" => rfqs' = {}
    BY <1>1 DEF Pricing!Requested
  <1>6. row.status = status /\ row.rows = rows /\ row.asOf = asOf /\ row.policy = pricePolicy
    OBVIOUS
  <1> HIDE DEF row
  <1>7. DecisionStands(decision', normalized', rfqs')
    BY <1>1, <1>3, <1>4, <1>5, <1>6 DEF DecisionStands
  <1>8. state' \in {"PRICING_IN_PROGRESS", "RFQ_REQUIRED", "EXPERT_REVIEW", "BLOCKED"}
    <2>1. state \in {"PRICING_IN_PROGRESS", "RFQ_REQUIRED", "EXPERT_REVIEW", "BLOCKED"}
      BY DEF PriceInv
    <2>2. state' \in {"PRICING_IN_PROGRESS", "RFQ_REQUIRED", "EXPERT_REVIEW", state}
      BY <1>1, <1>2 DEF Pricing!Synced
    <2> QED BY <2>1, <2>2
  <1>9. evaluated' \in Nat /\ evaluated' > 0
    BY <1>1 DEF PriceInv
  <1> QED BY <1>1, <1>7, <1>8, <1>9 DEF PriceInv

LEMMA ReplacePricedDocumentInv ==
    ASSUME PriceConstants, PriceInv, Pricing!ReplaceDocument
    PROVE  PriceInv'
  <1>1. /\ docset < MaxSets /\ docset' = docset + 1 /\ state' = "BLOCKED"
        /\ match' = IF match = NoRow THEN match
                    ELSE [match EXCEPT !.status = "IN_REVIEW",
                                       !.task = IF @ = "none" THEN @ ELSE "SUPERSEDED"]
        /\ decision' = IF decision = NoRow THEN decision ELSE [decision EXCEPT !.status = "EXPIRED"]
        /\ UNCHANGED <<evaluated, normalized, rfqs, pricePolicy>>
    BY DEF Pricing!ReplaceDocument
  <1>2. docset' \in 1 .. MaxSets
    BY <1>1 DEF PriceInv, PriceConstants
  <1>3. /\ match' \in Pricing!MatchRow \cup {NoRow}
        /\ match' # NoRow => FourEyesMatch(match')
    <2>1. CASE match = NoRow
      BY <1>1, <2>1
    <2>2. CASE match # NoRow
      <3>1. match \in Pricing!MatchRow
        BY <2>2 DEF PriceInv
      <3>2. match' = [match EXCEPT !.status = "IN_REVIEW",
                                   !.task = IF @ = "none" THEN @ ELSE "SUPERSEDED"]
        BY <1>1, <2>2
      <3>3. match' \in Pricing!MatchRow /\ match'.status = "IN_REVIEW" /\ match'.task # "APPROVED"
        BY <3>1, <3>2 DEF Pricing!MatchRow
      <3> QED BY <3>3 DEF FourEyesMatch
    <2> QED BY <2>1, <2>2
  <1>4. decision' # NoRow => DecisionStands(decision', normalized, rfqs) /\ evaluated > 0
    <2>1. CASE decision = NoRow
      BY <1>1, <2>1
    <2>2. CASE decision # NoRow
      <3>1. DecisionStands(decision, normalized, rfqs) /\ evaluated > 0
        BY <2>2 DEF PriceInv
      <3>2. decision' = [decision EXCEPT !.status = "EXPIRED"]
        BY <1>1, <2>2
      <3>3. /\ decision' \in DecisionRow /\ decision'.status = "EXPIRED"
            /\ decision'.rows = decision.rows /\ decision'.asOf = decision.asOf
            /\ decision'.policy = decision.policy
        BY <3>1, <3>2 DEF DecisionStands, DecisionRow
      <3> QED BY <3>1, <3>3 DEF DecisionStands
    <2> QED BY <2>1, <2>2
  <1>5. decision' # NoRow => DecisionStands(decision', normalized', rfqs') /\ evaluated' > 0
    BY <1>1, <1>4
  <1> QED BY <1>1, <1>2, <1>3, <1>5 DEF PriceInv

LEMMA PriceNextInv ==
    ASSUME PriceConstants, PriceInv, [Pricing!PriceNext]_(Pricing!priceVars)
    PROVE  PriceInv'
  <1>0. state \in {"PRICING_IN_PROGRESS", "RFQ_REQUIRED", "EXPERT_REVIEW", "BLOCKED"}
        /\ pricePolicy \in Policy
    BY DEF PriceInv
  <1>1. ASSUME UNCHANGED <<match, normalized, decision, evaluated, rfqs, docset>>,
               state' \in {"PRICING_IN_PROGRESS", "RFQ_REQUIRED", "EXPERT_REVIEW", "BLOCKED"},
               pricePolicy' \in Policy
        PROVE  PriceInv'
    BY <1>1 DEF PriceInv
  <1>2. ASSUME NEW c \in {"EXACT", "MISMATCH"}, Pricing!Assess(c)
        PROVE  PriceInv'
    BY <1>2, AssessInv
  <1>3. ASSUME NEW p \in Estimator, Pricing!ProposeAnalogue(p)
        PROVE  PriceInv'
    BY <1>3, ProposeAnalogueInv
  <1>4. ASSUME NEW p \in Estimator, NEW d \in {"APPROVED", "REJECTED"}, Pricing!DecideAnalogue(p, d)
        PROVE  PriceInv'
    BY <1>4, DecideAnalogueInv
  <1>5. CASE Pricing!FinalizeAnalogue
    BY <1>5, FinalizeAnalogueInv
  <1>6. ASSUME NEW q \in Quote, Pricing!RecordQuote(q)
        PROVE  PriceInv'
    BY <1>0, <1>1, <1>6 DEF Pricing!RecordQuote, Pricing!decisionVars, Pricing!boundVars
  <1>7. ASSUME NEW q \in Quote, NEW c \in Adjustment, Pricing!NormalizePrice(q, c)
        PROVE  PriceInv'
    BY <1>7, NormalizePriceInv
  <1>8. ASSUME NEW day \in Pricing!Day, NEW clear \in BOOLEAN, Pricing!EvaluateItemPrice(day, clear)
        PROVE  PriceInv'
    BY <1>8, EvaluateItemPriceInv
  <1>9. ASSUME NEW e \in DOMAIN priceTasks, NEW d \in {"APPROVED", "REJECTED"},
               Pricing!DecideSpread(e, d)
        PROVE  PriceInv'
    BY <1>0, <1>1, <1>9 DEF Pricing!DecideSpread, Pricing!decisionVars, Pricing!boundVars
  <1>10. CASE Pricing!ReplaceDocument
    BY <1>10, ReplacePricedDocumentInv
  <1>11. CASE Pricing!ConfirmSet
    BY <1>0, <1>1, <1>11 DEF Pricing!ConfirmSet, Pricing!decisionVars
  <1>12. ASSUME NEW v \in Policy, Pricing!BindPolicy(v)
         PROVE  PriceInv'
    BY <1>0, <1>1, <1>12 DEF Pricing!BindPolicy, Pricing!decisionVars
  <1>13. CASE UNCHANGED Pricing!priceVars
    BY <1>0, <1>1, <1>13 DEF Pricing!priceVars
  <1> QED BY <1>2, <1>3, <1>4, <1>5, <1>6, <1>7, <1>8, <1>9, <1>10, <1>11, <1>12, <1>13
          DEF Pricing!PriceNext

\* As many origins as prices: no two prices share one.
LEMMA OriginsDistinct ==
    ASSUME NEW rows, IsFiniteSet(rows),
           Cardinality({Origin[r.quote] : r \in rows}) = Cardinality(rows)
    PROVE  \A r, s \in rows : r # s => Origin[r.quote] # Origin[s.quote]
  <1> DEFINE image == {Origin[r.quote] : r \in rows}
             f == [r \in rows |-> Origin[r.quote]]
  <1>1. f \in Surjection(rows, image)
    BY DEF Surjection
  <1>2. f \in Injection(rows, image)
    <2> HIDE DEF f
    <2> QED BY <1>1, FS_Surjection
  <1>3. \A r, s \in rows : f[r] = f[s] => r = s
    BY <1>2 DEF Injection, IsInjective
  <1> QED BY <1>3

LEMMA PriceHolds ==
    ASSUME PriceInv
    PROVE  Pricing!PriceTypeOK /\ Pricing!PriceStands
  <1>1. Pricing!PriceTypeOK
    BY DEF Pricing!PriceTypeOK, Pricing!PricingState, PriceInv
  <1>2. SUFFICES ASSUME Pricing!PriceVerifies
                 PROVE  /\ \A r, s \in decision.rows : r # s => Origin[r.quote] # Origin[s.quote]
                        /\ \A r \in decision.rows : r.policy = pricePolicy
                                                    /\ decision.asOf <= ValidUntil[r.quote]
                        /\ match.class = "ANALOGUE" => match.approver \notin {Nobody, match.proposer}
                        /\ rfqs = {}
                        /\ Pricing!WideSpread(decision.rows) =>
                              \E e \in DOMAIN priceTasks : priceTasks[e] = "APPROVED"
                                                           /\ e.rows = decision.rows
    BY <1>1 DEF Pricing!PriceStands
  <1>3. /\ decision # NoRow /\ Pricing!MatchVerified /\ decision.status = "VERIFIED"
        /\ decision.policy = pricePolicy /\ Pricing!Independent(decision.rows)
        /\ Pricing!TasksApproved(decision.rows, decision.asOf)
    BY <1>2 DEF Pricing!PriceVerifies, Pricing!VerdictReproduces
  <1>4. DecisionStands(decision, normalized, rfqs)
    BY <1>3 DEF PriceInv
  <1>5. \A r, s \in decision.rows : r # s => Origin[r.quote] # Origin[s.quote]
    <2>0. \A S : Pricing!Cardinality(S) = Cardinality(S)
      BY DEF Pricing!Cardinality, Cardinality
    <2>1. IsFiniteSet(decision.rows)
      BY <1>4, FS_Subset DEF PriceInv, DecisionStands
    <2>2. Cardinality({Origin[r.quote] : r \in decision.rows}) = Cardinality(decision.rows)
      BY <1>3, <2>0 DEF Pricing!Independent
    <2> QED BY <2>1, <2>2, OriginsDistinct
  <1>6. \A r \in decision.rows : r.policy = pricePolicy /\ decision.asOf <= ValidUntil[r.quote]
    BY <1>3, <1>4 DEF DecisionStands
  <1>7. match.class = "ANALOGUE" => match.approver \notin {Nobody, match.proposer}
    BY <1>3 DEF Pricing!MatchVerified, PriceInv, FourEyesMatch
  <1>8. rfqs = {}
    BY <1>3, <1>4 DEF DecisionStands
  <1>9. ASSUME Pricing!WideSpread(decision.rows)
        PROVE  \E e \in DOMAIN priceTasks : priceTasks[e] = "APPROVED" /\ e.rows = decision.rows
    <2> DEFINE e == Pricing!Evaluation(decision.rows, decision.asOf)
    <2>1. e \in DOMAIN priceTasks /\ priceTasks[e] = "APPROVED"
      BY <1>3, <1>9 DEF Pricing!TasksApproved
    <2>2. e.rows = decision.rows
      BY DEF Pricing!Evaluation
    <2> QED BY <2>1, <2>2
  <1> QED BY <1>5, <1>6, <1>7, <1>8, <1>9

-----------------------------------------------------------------------------
(* Bill of quantities.                                                      *)

BoqTyped ==
    /\ proposals \in [Quantities!Kind -> Seq(Quantities!Proposal)]
    /\ lines \in Seq(Quantities!LineRow) /\ quantities \in Seq(Quantities!QuantityRow)
    /\ unresolved \subseteq 1 .. Len(quantities) /\ changes \in Seq(Quantities!ChangeRow)
    /\ critical \in BOOLEAN /\ docset \in 1 .. MaxSets
    /\ uploads \in [Upload -> Quantities!UploadState]

\* The quantities of a line follow one another: the first has no change, and
\* each of the others is an applied change of the one just before it.
Chained(qs, cs, findings, n) ==
    \A i \in 1 .. Len(qs) :
        /\ qs[i].line \in 1 .. n
        /\ \A j \in 1 .. i : qs[j].line <= qs[i].line
        /\ qs[i].change = 0 <=> (i = 1 \/ qs[i - 1].line < qs[i].line)
        /\ qs[i].change # 0 =>
              /\ qs[i].change \in 1 .. Len(cs) /\ cs[qs[i].change].previous = i - 1
              /\ cs[qs[i].change].applied /\ cs[qs[i].change].after = qs[i].value
        /\ qs[i].status = "VERIFIED" => i \notin findings

\* A change names a quantity; an applied one made the quantity after it, was
\* decided if it is critical, and a critical one is superseded exactly if a set
\* was replaced since it was proposed.
ChangeStands(c, row, qs, guarded, replaced) ==
    /\ row.previous \in 1 .. Len(qs) /\ row.seen \subseteq replaced
    /\ guarded <=> row.task # "none"
    /\ row.applied => row.previous + 1 \in 1 .. Len(qs) /\ qs[row.previous + 1].change = c
    /\ row.applied /\ guarded => row.task \in {"APPROVED", "SUPERSEDED"}
    /\ guarded => (row.task = "SUPERSEDED" <=> row.seen # replaced)

ChangesStand(cs, qs, guarded, replaced) ==
    \A c \in 1 .. Len(cs) : ChangeStands(c, cs[c], qs, guarded, replaced)

\* The inductive invariant.
BoqInv ==
    /\ BoqTyped /\ Chained(quantities, changes, unresolved, Len(lines))
    /\ ChangesStand(changes, quantities, critical, Quantities!Replacements)

LEMMA BoqInitInv ==
    ASSUME QuantityConstants, Quantities!BoqInit
    PROVE  BoqInv
  <1>1. /\ proposals = [k \in Quantities!Kind |-> <<>>] /\ lines = <<>> /\ quantities = <<>>
        /\ unresolved = {} /\ changes = <<>> /\ critical \in BOOLEAN /\ docset = 1
        /\ uploads \in [Upload -> Quantities!UploadState]
    BY DEF Quantities!BoqInit, Quantities!UploadState
  <1>2. 1 \in 1 .. MaxSets
    BY DEF QuantityConstants
  <1>3. BoqTyped
    BY <1>1, <1>2 DEF BoqTyped
  <1>4. Len(quantities) = 0 /\ Len(changes) = 0
    BY <1>1
  <1> QED BY <1>3, <1>4 DEF BoqInv, Chained, ChangesStand

\* Fields of the rows.
LEMMA BoqRows ==
    ASSUME BoqTyped
    PROVE  /\ Len(quantities) \in Nat /\ DOMAIN quantities = 1 .. Len(quantities)
           /\ Len(changes) \in Nat /\ DOMAIN changes = 1 .. Len(changes)
           /\ Len(lines) \in Nat /\ DOMAIN lines = 1 .. Len(lines)
           /\ \A i \in 1 .. Len(quantities) :
                 quantities[i] \in Quantities!QuantityRow /\ quantities[i].line \in Nat
                 /\ quantities[i].change \in Nat
           /\ \A c \in 1 .. Len(changes) :
                 changes[c] \in Quantities!ChangeRow /\ changes[c].previous \in Nat
  <1>1. quantities \in Seq(Quantities!QuantityRow) /\ changes \in Seq(Quantities!ChangeRow)
        /\ lines \in Seq(Quantities!LineRow)
    BY DEF BoqTyped
  <1>2. /\ Len(quantities) \in Nat /\ DOMAIN quantities = 1 .. Len(quantities)
        /\ Len(changes) \in Nat /\ DOMAIN changes = 1 .. Len(changes)
        /\ Len(lines) \in Nat /\ DOMAIN lines = 1 .. Len(lines)
    BY <1>1, LenProperties
  <1>3. \A i \in 1 .. Len(quantities) : quantities[i] \in Quantities!QuantityRow
    BY <1>1, HasLast
  <1>4. \A c \in 1 .. Len(changes) : changes[c] \in Quantities!ChangeRow
    BY <1>1, HasLast
  <1> QED BY <1>2, <1>3, <1>4 DEF Quantities!QuantityRow, Quantities!ChangeRow

\* The current quantity is the newest one, if it is of the current line.
LEMMA NewestIsCurrent ==
    ASSUME BoqInv
    PROVE  Quantities!CurrentQuantity =
               IF Len(quantities) > 0 /\ quantities[Len(quantities)].line = Len(lines)
               THEN Len(quantities) ELSE 0
  <1> DEFINE N == Len(quantities)
             of == Quantities!OfLine(Len(lines))
  <1>1. /\ N \in Nat /\ Len(lines) \in Nat /\ \A i \in 1 .. N : quantities[i].line \in Nat
        /\ of = {i \in 1 .. N : quantities[i].line = Len(lines)}
    BY BoqRows DEF BoqInv, Quantities!OfLine
  <1>2. \A i \in 1 .. N : quantities[i].line <= Len(lines)
                          /\ \A j \in 1 .. i : quantities[j].line <= quantities[i].line
    BY DEF BoqInv, Chained
  <1>3. Quantities!CurrentQuantity = IF of = {} THEN 0 ELSE CHOOSE i \in of : \A j \in of : j <= i
    BY DEF Quantities!CurrentQuantity
  <1> HIDE DEF of
  <1>4. CASE N > 0 /\ quantities[N].line = Len(lines)
    <2>1. N \in of /\ \A j \in of : j <= N /\ j \in Nat
      BY <1>1, <1>4
    <2>2. (CHOOSE i \in of : \A j \in of : j <= i) = N
      BY <2>1, <1>1
    <2> QED BY <1>3, <1>4, <2>1, <2>2
  <1>5. CASE ~ (N > 0 /\ quantities[N].line = Len(lines))
    <2>1. ASSUME NEW i \in of
          PROVE  FALSE
      <3>1. N \in 1 .. N /\ i \in 1 .. N /\ quantities[i].line = Len(lines)
        BY <1>1, <2>1
      <3>2. quantities[i].line <= quantities[N].line /\ quantities[N].line <= Len(lines)
        BY <1>1, <1>2, <3>1
      <3>3. quantities[N].line = Len(lines)
        BY <1>1, <3>1, <3>2
      <3> QED BY <1>1, <1>5, <3>1, <3>3
    <2> QED BY <1>3, <1>5, <2>1
  <1> QED BY <1>3, <1>4, <1>5

\* Only proposals or lines change, and lines are not taken back.
LEMMA NoQuantityChanged ==
    ASSUME BoqInv, proposals' \in [Quantities!Kind -> Seq(Quantities!Proposal)],
           lines' \in Seq(Quantities!LineRow), Len(lines') >= Len(lines),
           UNCHANGED <<quantities, unresolved, changes, critical, docset, uploads>>
    PROVE  BoqInv'
  <1>1. BoqTyped'
    BY DEF BoqInv, BoqTyped
  <1>2. Len(lines) \in Nat /\ Len(lines') \in Nat
    BY HasLast DEF BoqInv, BoqTyped
  <1>3. Chained(quantities, changes, unresolved, Len(lines'))
    BY <1>2 DEF BoqInv, Chained
  <1>4. /\ ChangesStand(changes, quantities, critical, Quantities!Replacements)
        /\ Quantities!Replacements' = Quantities!Replacements
    BY DEF BoqInv, Quantities!Replacements
  <1> QED BY <1>1, <1>3, <1>4 DEF BoqInv

LEMMA ProposedInv ==
    ASSUME BoqInv, NEW k \in Quantities!Kind, NEW p \in Estimator,
           proposals' = Quantities!WithProposal(k, p),
           UNCHANGED <<lines, quantities, unresolved, changes, critical, docset, uploads>>
    PROVE  BoqInv'
  <1> DEFINE row == [by |-> p, task |-> "PENDING", decided |-> "none"]
  <1>1. row \in Quantities!Proposal
    BY DEF Quantities!Proposal
  <1>2. proposals' = [proposals EXCEPT ![k] = Append(@, row)]
    BY DEF Quantities!WithProposal
  <1> HIDE DEF row
  <1>3. proposals' \in [Quantities!Kind -> Seq(Quantities!Proposal)]
    <2>1. proposals \in [Quantities!Kind -> Seq(Quantities!Proposal)]
      BY DEF BoqInv, BoqTyped
    <2>2. Append(proposals[k], row) \in Seq(Quantities!Proposal)
      BY <1>1, <2>1, Longer
    <2> QED BY <1>2, <2>1, <2>2
  <1>4. lines \in Seq(Quantities!LineRow) /\ Len(lines) \in Nat
    BY HasLast DEF BoqInv, BoqTyped
  <1> QED BY <1>3, <1>4, NoQuantityChanged

LEMMA DecideProposalInv ==
    ASSUME BoqInv, NEW k \in Quantities!Kind, NEW p \in Estimator,
           NEW d \in {"APPROVED", "REJECTED"}, Quantities!DecideProposal(k, p, d)
    PROVE  BoqInv'
  <1> DEFINE s == proposals[k]
             row == [s[Len(s)] EXCEPT !.task = d, !.decided = d]
  <1>1. /\ s # <<>> /\ proposals' = [proposals EXCEPT ![k] = [s EXCEPT ![Len(s)] = row]]
        /\ UNCHANGED <<lines, quantities, unresolved, changes, critical, docset, uploads>>
    BY DEF Quantities!DecideProposal, Quantities!documentVars
  <1>2. proposals \in [Quantities!Kind -> Seq(Quantities!Proposal)]
    BY DEF BoqInv, BoqTyped
  <1>3. s \in Seq(Quantities!Proposal) /\ s[Len(s)] \in Quantities!Proposal
        /\ Len(s) \in Nat
    <2>1. s \in Seq(Quantities!Proposal)
      BY <1>2
    <2> HIDE DEF s
    <2> QED BY <1>1, <2>1, HasLast
  <1>4. row \in Quantities!Proposal
    BY <1>3 DEF Quantities!Proposal
  <1> HIDE DEF row
  <1>5. Len(s) \in 1 .. Len(s)
    BY <1>1, <1>3, HasLast
  <1>6. [s EXCEPT ![Len(s)] = row] \in Seq(Quantities!Proposal)
    <2> HIDE DEF s
    <2> QED BY <1>3, <1>4, <1>5, ExceptSeq
  <1>7. proposals' \in [Quantities!Kind -> Seq(Quantities!Proposal)]
    BY <1>1, <1>2, <1>6
  <1>8. lines \in Seq(Quantities!LineRow) /\ Len(lines) \in Nat
    BY HasLast DEF BoqInv, BoqTyped
  <1> QED BY <1>1, <1>7, <1>8, NoQuantityChanged

LEMMA CreateLineInv ==
    ASSUME BoqInv, NEW p \in Estimator, NEW d \in Draft, Quantities!CreateLine(p, d)
    PROVE  BoqInv'
  <1>1. PICK i \in Quantities!Active("mapping") :
            lines' = Append(lines, [draft |-> d, docset |-> docset, by |-> p, of |-> i,
                                    verified |-> FALSE])
    BY DEF Quantities!CreateLine, Quantities!documentVars
  <1> DEFINE row == [draft |-> d, docset |-> docset, by |-> p, of |-> i, verified |-> FALSE]
  <1>2. UNCHANGED <<proposals, quantities, unresolved, changes, critical, docset, uploads>>
    BY DEF Quantities!CreateLine, Quantities!documentVars
  <1>3. /\ proposals \in [Quantities!Kind -> Seq(Quantities!Proposal)]
        /\ lines \in Seq(Quantities!LineRow) /\ docset \in 1 .. MaxSets
    BY DEF BoqInv, BoqTyped
  <1>4. i \in Nat
    <2>1. i \in DOMAIN proposals["mapping"] /\ proposals["mapping"] \in Seq(Quantities!Proposal)
      BY <1>3 DEF Quantities!Active, Quantities!Kind
    <2>2. DOMAIN proposals["mapping"] = 1 .. Len(proposals["mapping"])
      BY <2>1, HasLast
    <2> QED BY <2>1, <2>2
  <1>5. row \in Quantities!LineRow
    BY <1>3, <1>4 DEF Quantities!LineRow
  <1>6. lines' = Append(lines, row)
    BY <1>1
  <1> HIDE DEF row
  <1>7. lines' \in Seq(Quantities!LineRow) /\ Len(lines') = Len(lines) + 1
    BY <1>3, <1>5, <1>6, Longer
  <1>8. Len(lines) \in Nat
    BY <1>3, HasLast
  <1> QED BY <1>2, <1>3, <1>7, <1>8, NoQuantityChanged

LEMMA VerifyLineInv ==
    ASSUME BoqInv, NEW p \in Estimator, Quantities!VerifyLine(p)
    PROVE  BoqInv'
  <1>1. /\ lines # <<>> /\ lines' = [lines EXCEPT ![Len(lines)].verified = TRUE]
        /\ UNCHANGED <<proposals, quantities, unresolved, changes, critical, docset, uploads>>
    BY DEF Quantities!VerifyLine, Quantities!documentVars
  <1>2. lines \in Seq(Quantities!LineRow) /\ proposals \in [Quantities!Kind -> Seq(Quantities!Proposal)]
    BY DEF BoqInv, BoqTyped
  <1>3. Len(lines) \in Nat /\ Len(lines) \in 1 .. Len(lines) /\ lines[Len(lines)] \in Quantities!LineRow
    BY <1>1, <1>2, HasLast
  <1> DEFINE row == [lines[Len(lines)] EXCEPT !.verified = TRUE]
  <1>4. row \in Quantities!LineRow
    BY <1>3 DEF Quantities!LineRow
  <1>5. lines' = [lines EXCEPT ![Len(lines)] = row]
    BY <1>1
  <1> HIDE DEF row
  <1>6. lines' \in Seq(Quantities!LineRow) /\ Len(lines') = Len(lines)
    BY <1>2, <1>3, <1>4, <1>5, ExceptSeq
  <1> QED BY <1>1, <1>2, <1>3, <1>6, NoQuantityChanged

\* A quantity is added to the current line.
LEMMA QuantityAdded ==
    ASSUME BoqInv, NEW v \in Quantity, NEW status \in {"VERIFIED", "CONFLICT"},
           NEW c \in Nat, Len(lines) > 0,
           quantities' = Quantities!NewQuantity(v, status, c),
           UNCHANGED <<proposals, lines, critical, docset, uploads>>,
           unresolved' \subseteq unresolved \cup (IF status = "VERIFIED" THEN {} ELSE {Len(quantities) + 1}),
           changes' \in Seq(Quantities!ChangeRow), Len(changes') = Len(changes),
           \A j \in 1 .. Len(changes) :
               /\ j # c => changes'[j] = changes[j]
               /\ changes'[j].previous = changes[j].previous
               /\ changes'[j].after = changes[j].after
               /\ changes[j].applied => changes'[j].applied,
           c = 0 <=> Quantities!CurrentQuantity = 0,
           c # 0 => /\ c \in 1 .. Len(changes) /\ changes[c].previous = Len(quantities)
                    /\ changes[c].after = v /\ changes'[c].applied
                    /\ ChangeStands(c, changes'[c], quantities', critical, Quantities!Replacements)
    PROVE  BoqInv'
  <1> DEFINE N == Len(quantities)
             row == [line |-> Len(lines), value |-> v, status |-> status, change |-> c]
  <1>0. BoqTyped /\ N \in Nat /\ Len(lines) \in Nat
    BY BoqRows DEF BoqInv
  <1>1. row \in Quantities!QuantityRow /\ quantities \in Seq(Quantities!QuantityRow)
    BY <1>0 DEF Quantities!QuantityRow, BoqTyped
  <1>2. quantities' = Append(quantities, row)
    BY DEF Quantities!NewQuantity
  <1>3. row.line = Len(lines) /\ row.value = v /\ row.status = status /\ row.change = c
    OBVIOUS
  <1> HIDE DEF row
  <1>4. /\ quantities' \in Seq(Quantities!QuantityRow) /\ Len(quantities') = N + 1
        /\ quantities'[N + 1] = row /\ \A i \in 1 .. N : quantities'[i] = quantities[i]
    BY <1>1, <1>2, Longer
  <1>5. BoqTyped'
    <2>1. unresolved' \subseteq 1 .. N + 1
      BY <1>0 DEF BoqTyped
    <2> QED BY <1>0, <1>4, <2>1 DEF BoqTyped
  <1>6. \A i \in 1 .. N : quantities[i].line \in Nat /\ quantities[i].change \in Nat
    BY <1>0, BoqRows
  <1>7. \A i \in 1 .. N : quantities[i].line <= Len(lines)
    BY DEF BoqInv, Chained
  <1>8. ASSUME NEW i \in 1 .. N + 1
        PROVE  /\ quantities'[i].line \in 1 .. Len(lines)
               /\ \A j \in 1 .. i : quantities'[j].line <= quantities'[i].line
    <2>1. CASE i = N + 1
      <3>1. quantities'[i].line = Len(lines)
        BY <1>3, <1>4, <2>1
      <3>2. \A j \in 1 .. i : j = N + 1 \/ j \in 1 .. N
        BY <1>0, <2>1
      <3>3. \A j \in 1 .. i : quantities'[j].line <= Len(lines)
        BY <1>0, <1>3, <1>4, <1>7, <3>2
      <3> QED BY <1>0, <3>1, <3>3
    <2>2. CASE i # N + 1
      <3>1. i \in 1 .. N /\ \A j \in 1 .. i : j \in 1 .. N
        BY <1>0, <2>2
      <3> QED BY <1>4, <3>1 DEF BoqInv, Chained
    <2> QED BY <2>1, <2>2
  <1>9. ASSUME NEW i \in 1 .. N + 1
        PROVE  /\ quantities'[i].change = 0 <=> (i = 1 \/ quantities'[i - 1].line < quantities'[i].line)
               /\ quantities'[i].change # 0 =>
                     /\ quantities'[i].change \in 1 .. Len(changes)
                     /\ changes[quantities'[i].change].previous = i - 1
                     /\ changes'[quantities'[i].change].applied
                     /\ changes[quantities'[i].change].after = quantities'[i].value
    <2>1. CASE i = N + 1
      <3>1. c = 0 <=> (N = 0 \/ quantities[N].line < Len(lines))
        <4>1. Quantities!CurrentQuantity =
                 IF N > 0 /\ quantities[N].line = Len(lines) THEN N ELSE 0
          BY NewestIsCurrent
        <4>2. N = 0 \/ N \in 1 .. N
          BY <1>0
        <4> QED BY <1>0, <1>6, <1>7, <4>1, <4>2
      <3>2. i - 1 = N /\ (N # 0 => N \in 1 .. N)
        BY <1>0, <2>1
      <3> QED BY <1>0, <1>3, <1>4, <2>1, <3>1, <3>2
    <2>2. CASE i # N + 1
      <3>1. i \in 1 .. N /\ (i # 1 => i - 1 \in 1 .. N)
        BY <1>0, <2>2
      <3>2. quantities[i].change # 0 =>
                /\ quantities[i].change \in 1 .. Len(changes)
                /\ changes[quantities[i].change].previous = i - 1
                /\ changes[quantities[i].change].applied
                /\ changes[quantities[i].change].after = quantities[i].value
        BY <3>1 DEF BoqInv, Chained
      <3>3. quantities[i].change = 0 <=> (i = 1 \/ quantities[i - 1].line < quantities[i].line)
        BY <3>1 DEF BoqInv, Chained
      <3> QED BY <1>4, <3>1, <3>2, <3>3
    <2> QED BY <2>1, <2>2
  <1>10. ASSUME NEW i \in 1 .. N + 1, quantities'[i].status = "VERIFIED"
         PROVE  i \notin unresolved'
    <2>1. CASE i = N + 1
      BY <1>0, <1>3, <1>4, <1>10, <2>1 DEF BoqTyped
    <2>2. CASE i # N + 1
      <3>1. i \in 1 .. N
        BY <1>0, <2>2
      <3> QED BY <1>4, <1>10, <2>2, <3>1 DEF BoqInv, Chained
    <2> QED BY <2>1, <2>2
  <1>11. Chained(quantities', changes', unresolved', Len(lines))
    BY <1>4, <1>8, <1>9, <1>10 DEF Chained
  <1>12. ChangesStand(changes', quantities', critical, Quantities!Replacements)
    <2> SUFFICES ASSUME NEW j \in 1 .. Len(changes)
                 PROVE  ChangeStands(j, changes'[j], quantities', critical, Quantities!Replacements)
      BY DEF ChangesStand
    <2>1. CASE j = c
      BY <2>1, <1>0
    <2>2. CASE j # c
      <3>1. ChangeStands(j, changes[j], quantities, critical, Quantities!Replacements) /\ changes'[j] = changes[j]
        BY <2>2 DEF BoqInv, ChangesStand
      <3>2. changes[j].previous \in Nat
        BY <1>0, BoqRows
      <3> QED BY <1>0, <1>4, <3>1, <3>2 DEF ChangeStands
    <2> QED BY <2>1, <2>2
  <1>13. Quantities!Replacements' = Quantities!Replacements
    BY DEF Quantities!Replacements
  <1> QED BY <1>5, <1>11, <1>12, <1>13 DEF BoqInv

LEMMA RecordInitialInv ==
    ASSUME BoqInv, NEW v \in Quantity, NEW passed \in BOOLEAN, Quantities!RecordInitial(v, passed)
    PROVE  BoqInv'
  <1> DEFINE status == IF passed THEN "VERIFIED" ELSE "CONFLICT"
  <1>1. /\ lines # <<>> /\ Quantities!CurrentQuantity = 0
        /\ quantities' = Quantities!NewQuantity(v, status, 0)
        /\ unresolved' = IF passed THEN unresolved ELSE unresolved \cup {Len(quantities) + 1}
        /\ UNCHANGED <<proposals, lines, changes, critical, docset, uploads>>
    BY DEF Quantities!RecordInitial, Quantities!QuantityLine, Quantities!documentVars
  <1>2. status \in {"VERIFIED", "CONFLICT"} /\ (status = "VERIFIED" <=> passed)
    OBVIOUS
  <1> HIDE DEF status
  <1>3. /\ unresolved' \subseteq unresolved \cup (IF status = "VERIFIED" THEN {} ELSE {Len(quantities) + 1})
        /\ changes' = changes /\ changes' \in Seq(Quantities!ChangeRow)
    BY <1>1, <1>2 DEF BoqInv, BoqTyped
  <1>4. Len(lines) > 0
    BY <1>1, HasLast DEF BoqInv, BoqTyped
  <1> QED BY <1>1, <1>2, <1>3, <1>4, QuantityAdded

LEMMA ProposeChangeInv ==
    ASSUME BoqInv, NEW p \in Estimator, NEW v \in Quantity, Quantities!ProposeChange(p, v)
    PROVE  BoqInv'
  <1> DEFINE N == Len(quantities)
             row == [by |-> p, previous |-> Quantities!CurrentQuantity, after |-> v,
                     docset |-> docset, task |-> IF critical THEN "PENDING" ELSE "none",
                     applied |-> FALSE, seen |-> Quantities!Replacements]
  <1>1. /\ Quantities!CurrentQuantity # 0 /\ changes' = Append(changes, row)
        /\ UNCHANGED <<proposals, lines, quantities, unresolved, critical, docset, uploads>>
        /\ Quantities!Replacements' = Quantities!Replacements
    BY DEF Quantities!ProposeChange, Quantities!documentVars, Quantities!Replacements
  <1>2. BoqTyped /\ N \in Nat /\ Len(changes) \in Nat
    BY BoqRows DEF BoqInv
  <1>3. Quantities!CurrentQuantity \in 1 .. N
    BY <1>1, <1>2, NewestIsCurrent
  <1>4. row \in Quantities!ChangeRow /\ changes \in Seq(Quantities!ChangeRow)
    BY <1>2, <1>3 DEF BoqTyped, Quantities!ChangeRow, Quantities!Replacements
  <1>5. ChangeStands(Len(changes) + 1, row, quantities, critical, Quantities!Replacements)
    BY <1>2, <1>3 DEF ChangeStands, BoqTyped
  <1> HIDE DEF row
  <1>6. /\ changes' \in Seq(Quantities!ChangeRow) /\ Len(changes') = Len(changes) + 1
        /\ changes'[Len(changes) + 1] = row
        /\ \A c \in 1 .. Len(changes) : changes'[c] = changes[c]
    BY <1>1, <1>4, Longer
  <1>7. ChangesStand(changes', quantities, critical, Quantities!Replacements)
    <2> SUFFICES ASSUME NEW c \in 1 .. Len(changes) + 1
                 PROVE  ChangeStands(c, changes'[c], quantities, critical, Quantities!Replacements)
      BY <1>6 DEF ChangesStand
    <2>1. CASE c = Len(changes) + 1
      BY <1>5, <1>6, <2>1
    <2>2. CASE c \in 1 .. Len(changes)
      BY <1>6, <2>2 DEF BoqInv, ChangesStand
    <2> QED BY <1>2, <2>1, <2>2
  <1>8. Chained(quantities, changes', unresolved, Len(lines))
    <2>1. \A c \in 1 .. Len(changes) : c \in 1 .. Len(changes')
      BY <1>2, <1>6
    <2> QED BY <1>6, <2>1 DEF BoqInv, Chained
  <1>9. BoqTyped'
    BY <1>1, <1>2, <1>6 DEF BoqTyped
  <1> QED BY <1>1, <1>7, <1>8, <1>9 DEF BoqInv

LEMMA DecideChangeInv ==
    ASSUME BoqInv, NEW c \in DOMAIN changes, NEW p \in Estimator,
           NEW d \in {"APPROVED", "REJECTED"}, Quantities!DecideChange(c, p, d)
    PROVE  BoqInv'
  <1> DEFINE row == [changes[c] EXCEPT !.task = d]
  <1>1. /\ changes[c].task = "PENDING" /\ changes' = [changes EXCEPT ![c] = row]
        /\ UNCHANGED <<proposals, lines, quantities, unresolved, critical, docset, uploads>>
        /\ Quantities!Replacements' = Quantities!Replacements
    BY DEF Quantities!DecideChange, Quantities!documentVars, Quantities!Replacements
  <1>2. /\ BoqTyped /\ c \in 1 .. Len(changes) /\ changes[c] \in Quantities!ChangeRow
        /\ changes \in Seq(Quantities!ChangeRow)
    BY BoqRows DEF BoqInv, BoqTyped
  <1>3. /\ row \in Quantities!ChangeRow /\ row.task = d /\ row.previous = changes[c].previous
        /\ row.seen = changes[c].seen /\ row.applied = changes[c].applied
        /\ row.after = changes[c].after
    BY <1>2 DEF Quantities!ChangeRow
  <1> HIDE DEF row
  <1>4. /\ changes' \in Seq(Quantities!ChangeRow) /\ Len(changes') = Len(changes)
        /\ \A j \in 1 .. Len(changes) : changes'[j] = IF j = c THEN row ELSE changes[j]
    BY <1>1, <1>2, <1>3, ExceptSeq
  <1>5. ASSUME NEW j \in 1 .. Len(changes)
        PROVE  ChangeStands(j, changes'[j], quantities, critical, Quantities!Replacements)
    <2>1. ChangeStands(j, changes[j], quantities, critical, Quantities!Replacements)
      BY DEF BoqInv, ChangesStand
    <2>2. CASE j = c
      BY <1>1, <1>3, <1>4, <2>1, <2>2 DEF ChangeStands
    <2>3. CASE j # c
      BY <1>4, <2>1, <2>3
    <2> QED BY <2>2, <2>3
  <1>6. ChangesStand(changes', quantities, critical, Quantities!Replacements)
    BY <1>4, <1>5 DEF ChangesStand
  <1>7. Chained(quantities, changes', unresolved, Len(lines))
    <2>1. \A j \in 1 .. Len(changes) : changes'[j].previous = changes[j].previous
              /\ changes'[j].applied = changes[j].applied /\ changes'[j].after = changes[j].after
      BY <1>3, <1>4
    <2> QED BY <1>4, <2>1 DEF BoqInv, Chained
  <1>8. BoqTyped'
    BY <1>1, <1>2, <1>4 DEF BoqTyped
  <1> QED BY <1>1, <1>6, <1>7, <1>8 DEF BoqInv

LEMMA ApplyChangeInv ==
    ASSUME BoqInv, NEW c \in DOMAIN changes, Quantities!ApplyChange(c)
    PROVE  BoqInv'
  <1> DEFINE N == Len(quantities)
             row == [changes[c] EXCEPT !.applied = TRUE]
  <1>1. /\ lines # <<>> /\ Quantities!CurrentQuantity # 0
        /\ critical => changes[c].task = "APPROVED"
        /\ Quantities!CurrentQuantity = changes[c].previous
        /\ quantities' = Quantities!NewQuantity(changes[c].after, "VERIFIED", c)
        /\ unresolved' = unresolved \ {Quantities!CurrentQuantity}
        /\ changes' = [changes EXCEPT ![c] = row]
        /\ UNCHANGED <<proposals, lines, critical, docset, uploads>>
    BY DEF Quantities!ApplyChange, Quantities!Applicable, Quantities!ChangeApproved,
           Quantities!QuantityLine, Quantities!documentVars
  <1>2. /\ BoqTyped /\ c \in 1 .. Len(changes) /\ changes[c] \in Quantities!ChangeRow
        /\ changes \in Seq(Quantities!ChangeRow) /\ N \in Nat /\ Len(changes) \in Nat
    BY BoqRows DEF BoqInv, BoqTyped
  <1>3. /\ row \in Quantities!ChangeRow /\ row.task = changes[c].task
        /\ row.previous = changes[c].previous
        /\ row.seen = changes[c].seen /\ row.applied = TRUE
        /\ row.after = changes[c].after
    BY <1>2 DEF Quantities!ChangeRow
  <1> HIDE DEF row
  <1>4. /\ changes' \in Seq(Quantities!ChangeRow) /\ Len(changes') = Len(changes)
        /\ \A j \in 1 .. Len(changes) : changes'[j] = IF j = c THEN row ELSE changes[j]
    BY <1>1, <1>2, <1>3, ExceptSeq
  <1>5. Quantities!CurrentQuantity = N /\ N > 0
    BY <1>1, NewestIsCurrent
  <1>6. Len(lines) > 0
    BY <1>1, HasLast DEF BoqInv, BoqTyped
  <1>7. Len(quantities') = N + 1 /\ quantities'[N + 1].change = c
    <2> DEFINE new == [line |-> Len(lines), value |-> changes[c].after, status |-> "VERIFIED",
                       change |-> c]
    <2>1. quantities' = Append(quantities, new) /\ new.change = c
      BY <1>1 DEF Quantities!NewQuantity
    <2>2. quantities \in Seq(Quantities!QuantityRow)
      BY <1>2 DEF BoqTyped
    <2>3. new \in Quantities!QuantityRow
      <3>1. Len(lines) \in Nat /\ c \in Nat /\ changes[c].after \in Quantity
        BY <1>2, BoqRows DEF Quantities!ChangeRow
      <3> QED BY <3>1 DEF Quantities!QuantityRow
    <2> HIDE DEF new
    <2> QED BY <2>1, <2>2, <2>3, Longer
  <1>8. ChangeStands(c, changes'[c], quantities', critical, Quantities!Replacements)
    <2>1. changes'[c] = row /\ row.previous = N /\ N \in 1 .. N + 1 /\ N + 1 \in 1 .. N + 1
      BY <1>1, <1>2, <1>3, <1>4, <1>5
    <2>3. ChangeStands(c, changes[c], quantities, critical, Quantities!Replacements)
      BY <1>2 DEF BoqInv, ChangesStand
    <2>4. /\ critical <=> row.task # "none"
          /\ row.seen \subseteq Quantities!Replacements
          /\ critical => (row.task = "SUPERSEDED" <=> row.seen # Quantities!Replacements)
      BY <1>3, <2>3 DEF ChangeStands
    <2> QED BY <1>1, <1>3, <1>7, <2>1, <2>4 DEF ChangeStands
  <1>9. changes[c].after \in Quantity /\ c \in Nat /\ c # 0
    BY <1>2 DEF Quantities!ChangeRow
  <1>10. \A j \in 1 .. Len(changes) :
               /\ j # c => changes'[j] = changes[j]
               /\ changes'[j].previous = changes[j].previous
               /\ changes'[j].after = changes[j].after
               /\ changes[j].applied => changes'[j].applied
    BY <1>3, <1>4
  <1>11. changes[c].previous = Len(quantities) /\ changes'[c].applied
    BY <1>1, <1>2, <1>3, <1>4, <1>5
  <1>12. unresolved' \subseteq unresolved \cup
             (IF "VERIFIED" = "VERIFIED" THEN {} ELSE {Len(quantities) + 1})
    BY <1>1
  <1> QED BY <1>1, <1>2, <1>4, <1>6, <1>8, <1>9, <1>10, <1>11, <1>12, QuantityAdded

LEMMA ReplaceMeasuredDocumentInv ==
    ASSUME QuantityConstants, BoqInv, NEW u \in Upload, Quantities!ReplaceDocument(u)
    PROVE  BoqInv'
  <1> DEFINE N == Len(quantities)
             current == Quantities!CurrentQuantity
             withdrawn(k) == [i \in DOMAIN proposals[k] |->
                                  [proposals[k][i] EXCEPT !.task = "SUPERSEDED"]]
  <1>1. /\ docset < MaxSets /\ docset' = docset + 1
        /\ lines' = [i \in DOMAIN lines |->
               IF i = Len(lines) THEN [lines[i] EXCEPT !.verified = FALSE] ELSE lines[i]]
        /\ quantities' = [i \in DOMAIN quantities |->
               IF i = current THEN [quantities[i] EXCEPT !.status = "IN_REVIEW"] ELSE quantities[i]]
        /\ changes' = [c \in DOMAIN changes |-> Quantities!SupersededChange(changes[c])]
        /\ proposals' = [k \in Quantities!Kind |-> withdrawn(k)]
        /\ UNCHANGED <<unresolved, critical>>
        /\ uploads[u] = "captured" /\ uploads' = [uploads EXCEPT ![u] = "replaced"]
    BY DEF Quantities!ReplaceDocument, Quantities!NewCandidate
  <1>2. /\ BoqTyped /\ N \in Nat /\ quantities \in Seq(Quantities!QuantityRow)
        /\ changes \in Seq(Quantities!ChangeRow) /\ lines \in Seq(Quantities!LineRow)
        /\ proposals \in [Quantities!Kind -> Seq(Quantities!Proposal)]
        /\ critical \in BOOLEAN /\ docset \in 1 .. MaxSets
    BY BoqRows DEF BoqInv, BoqTyped
  <1>3. docset' \in 1 .. MaxSets /\ uploads' \in [Upload -> Quantities!UploadState]
    BY <1>1, <1>2 DEF QuantityConstants, BoqTyped, Quantities!UploadState
  <1>4. proposals' \in [Quantities!Kind -> Seq(Quantities!Proposal)]
    <2>1. ASSUME NEW k \in Quantities!Kind
          PROVE  withdrawn(k) \in Seq(Quantities!Proposal)
      <3>1. proposals[k] \in Seq(Quantities!Proposal)
        BY <1>2
      <3>2. \A i \in DOMAIN proposals[k] : proposals[k][i] \in Quantities!Proposal
        BY <3>1, HasLast
      <3>3. \A i \in DOMAIN proposals[k] :
                [proposals[k][i] EXCEPT !.task = "SUPERSEDED"] \in Quantities!Proposal
        BY <3>2 DEF Quantities!Proposal
      <3>4. withdrawn(k) \in [DOMAIN proposals[k] -> Quantities!Proposal]
        BY <3>3
      <3> HIDE DEF withdrawn
      <3> QED BY <3>1, <3>4, Remapped
    <2> HIDE DEF withdrawn
    <2> QED BY <1>1, <2>1
  <1>5. lines' \in Seq(Quantities!LineRow) /\ Len(lines') = Len(lines)
    <2>1. \A i \in DOMAIN lines : lines[i] \in Quantities!LineRow
      BY <1>2, HasLast
    <2>2. lines' \in [DOMAIN lines -> Quantities!LineRow]
      BY <1>1, <2>1 DEF Quantities!LineRow
    <2> QED BY <1>2, <2>2, Remapped
  <1>6. /\ quantities' \in Seq(Quantities!QuantityRow) /\ Len(quantities') = N
        /\ \A i \in 1 .. N : /\ quantities'[i].line = quantities[i].line
                             /\ quantities'[i].value = quantities[i].value
                             /\ quantities'[i].change = quantities[i].change
                             /\ quantities'[i].status \in {quantities[i].status, "IN_REVIEW"}
    <2>1. \A i \in 1 .. N : quantities[i] \in Quantities!QuantityRow
      BY <1>2, HasLast
    <2>2. DOMAIN quantities = 1 .. N
      BY <1>2, HasLast
    <2> HIDE DEF current
    <2>3. \A i \in 1 .. N : quantities'[i] =
              IF i = current THEN [quantities[i] EXCEPT !.status = "IN_REVIEW"] ELSE quantities[i]
      BY <1>1, <2>2
    <2>4. quantities' \in [DOMAIN quantities -> Quantities!QuantityRow]
      BY <1>1, <2>1, <2>2 DEF Quantities!QuantityRow
    <2>5. quantities' \in Seq(Quantities!QuantityRow) /\ Len(quantities') = N
      BY <1>2, <2>4, Remapped
    <2>6. \A i \in 1 .. N : /\ quantities'[i].line = quantities[i].line
                             /\ quantities'[i].value = quantities[i].value
                             /\ quantities'[i].change = quantities[i].change
                             /\ quantities'[i].status \in {quantities[i].status, "IN_REVIEW"}
      BY <2>1, <2>3 DEF Quantities!QuantityRow
    <2> QED BY <2>5, <2>6
  <1>7. /\ changes' \in Seq(Quantities!ChangeRow) /\ Len(changes') = Len(changes)
        /\ \A c \in 1 .. Len(changes) :
              /\ changes'[c].previous = changes[c].previous /\ changes'[c].after = changes[c].after
              /\ changes'[c].seen = changes[c].seen /\ changes'[c].applied = changes[c].applied
              /\ changes'[c].task = IF changes[c].task = "none" THEN "none" ELSE "SUPERSEDED"
    <2>1. \A c \in 1 .. Len(changes) : changes[c] \in Quantities!ChangeRow
      BY <1>2, HasLast
    <2>2. DOMAIN changes = 1 .. Len(changes)
      BY <1>2, HasLast
    <2>3. \A c \in 1 .. Len(changes) : changes'[c] =
              IF changes[c].task = "none" THEN changes[c]
              ELSE [changes[c] EXCEPT !.task = "SUPERSEDED"]
      BY <1>1, <2>2 DEF Quantities!SupersededChange
    <2>4. changes' \in [DOMAIN changes -> Quantities!ChangeRow]
      <3>1. \A c \in 1 .. Len(changes) : changes'[c] \in Quantities!ChangeRow
        BY <2>1, <2>3 DEF Quantities!ChangeRow
      <3> QED BY <1>1, <2>2, <3>1
    <2>5. changes' \in Seq(Quantities!ChangeRow) /\ Len(changes') = Len(changes)
      BY <1>2, <2>4, Remapped
    <2>6. \A c \in 1 .. Len(changes) :
              /\ changes'[c].previous = changes[c].previous /\ changes'[c].after = changes[c].after
              /\ changes'[c].seen = changes[c].seen /\ changes'[c].applied = changes[c].applied
              /\ changes'[c].task = IF changes[c].task = "none" THEN "none" ELSE "SUPERSEDED"
      BY <2>1, <2>3 DEF Quantities!ChangeRow
    <2> QED BY <2>5, <2>6
  <1>8. BoqTyped'
    BY <1>1, <1>2, <1>3, <1>4, <1>5, <1>6, <1>7 DEF BoqTyped
  <1>9. Chained(quantities', changes', unresolved, Len(lines))
    <2> SUFFICES ASSUME NEW i \in 1 .. N
                 PROVE  /\ quantities'[i].line \in 1 .. Len(lines)
                        /\ \A j \in 1 .. i : quantities'[j].line <= quantities'[i].line
                        /\ quantities'[i].change = 0
                              <=> (i = 1 \/ quantities'[i - 1].line < quantities'[i].line)
                        /\ quantities'[i].change # 0 =>
                              /\ quantities'[i].change \in 1 .. Len(changes)
                              /\ changes'[quantities'[i].change].previous = i - 1
                              /\ changes'[quantities'[i].change].applied
                              /\ changes'[quantities'[i].change].after = quantities'[i].value
                        /\ quantities'[i].status = "VERIFIED" => i \notin unresolved
      BY <1>6, <1>7 DEF Chained
    <2>1. /\ quantities[i].line \in 1 .. Len(lines)
          /\ \A j \in 1 .. i : quantities[j].line <= quantities[i].line
          /\ quantities[i].change = 0 <=> (i = 1 \/ quantities[i - 1].line < quantities[i].line)
      BY DEF BoqInv, Chained
    <2>2. /\ quantities[i].change # 0 =>
                 /\ quantities[i].change \in 1 .. Len(changes)
                 /\ changes[quantities[i].change].previous = i - 1
                 /\ changes[quantities[i].change].applied
                 /\ changes[quantities[i].change].after = quantities[i].value
          /\ quantities[i].status = "VERIFIED" => i \notin unresolved
      BY DEF BoqInv, Chained
    <2>3. (i = 1 \/ i - 1 \in 1 .. N) /\ \A j \in 1 .. i : j \in 1 .. N
      BY <1>2
    <2>4. quantities'[i].change # 0 =>
              /\ quantities'[i].change \in 1 .. Len(changes)
              /\ changes'[quantities'[i].change].previous = i - 1
              /\ changes'[quantities'[i].change].applied
              /\ changes'[quantities'[i].change].after = quantities'[i].value
      BY <1>6, <1>7, <2>2
    <2>5. quantities'[i].status = "VERIFIED" => i \notin unresolved
      BY <1>6, <2>2
    <2>6. \A j \in 1 .. i : quantities'[j].line <= quantities'[i].line
      BY <1>6, <2>1, <2>3
    <2>7. quantities'[i].change = 0 <=> (i = 1 \/ quantities'[i - 1].line < quantities'[i].line)
      BY <1>6, <2>1, <2>3
    <2> QED BY <1>6, <2>1, <2>4, <2>5, <2>6, <2>7
  <1>10. ASSUME NEW c \in 1 .. Len(changes)
         PROVE  ChangeStands(c, changes'[c], quantities', critical, Quantities!Replacements')
    <2>1. ChangeStands(c, changes[c], quantities, critical, Quantities!Replacements)
      BY DEF BoqInv, ChangesStand
    <2>2. /\ changes'[c].seen \subseteq Quantities!Replacements'
          /\ changes'[c].seen # Quantities!Replacements'
      <3>1. u \in Quantities!Replacements' /\ u \notin Quantities!Replacements
        BY <1>1, <1>2 DEF Quantities!Replacements, BoqTyped
      <3>2. Quantities!Replacements \subseteq Quantities!Replacements'
        BY <1>1, <1>2 DEF Quantities!Replacements, BoqTyped
      <3>3. changes[c].seen \subseteq Quantities!Replacements
        BY <2>1 DEF ChangeStands
      <3> QED BY <1>7, <3>1, <3>2, <3>3
    <2>3. critical <=> changes'[c].task # "none"
      BY <1>7, <2>1 DEF ChangeStands
    <2>4. critical => changes'[c].task = "SUPERSEDED"
      BY <1>7, <2>1 DEF ChangeStands
    <2>5. changes'[c].previous \in 1 .. Len(quantities')
      BY <1>6, <1>7, <2>1 DEF ChangeStands
    <2>6. changes'[c].applied =>
              /\ changes'[c].previous + 1 \in 1 .. Len(quantities')
              /\ quantities'[changes'[c].previous + 1].change = c
      BY <1>6, <1>7, <2>1 DEF ChangeStands
    <2> QED BY <2>2, <2>3, <2>4, <2>5, <2>6 DEF ChangeStands
  <1>11. ChangesStand(changes', quantities', critical, Quantities!Replacements')
    BY <1>7, <1>10 DEF ChangesStand
  <1> QED BY <1>1, <1>5, <1>8, <1>9, <1>11 DEF BoqInv

\* A step of the documents that replaces none leaves what was measured.
LEMMA DocumentsStep ==
    ASSUME BoqInv, docset' \in 1 .. MaxSets, uploads' \in [Upload -> Quantities!UploadState],
           Quantities!Replacements' = Quantities!Replacements,
           UNCHANGED <<proposals, lines, quantities, unresolved, changes, critical>>
    PROVE  BoqInv'
  <1>1. BoqTyped'
    BY DEF BoqInv, BoqTyped
  <1>2. Chained(quantities, changes, unresolved, Len(lines))
    BY DEF BoqInv
  <1>3. ChangesStand(changes, quantities, critical, Quantities!Replacements)
    BY DEF BoqInv
  <1> QED BY <1>1, <1>2, <1>3 DEF BoqInv

\* An upload that captured no set is no replacement, and none before it is processed.
LEMMA ReceiveOrAddDocumentInv ==
    ASSUME QuantityConstants, BoqInv, NEW u \in Upload,
           Quantities!ReceiveUpload(u) \/ Quantities!AddDocument(u)
    PROVE  BoqInv'
  <1>1. PICK became \in {"captured", "uncaptured", "added"} :
            uploads' = [uploads EXCEPT ![u] = became]
    BY DEF Quantities!ReceiveUpload, Quantities!AddDocument
  <1>2. /\ uploads[u] # "replaced"
        /\ docset' = docset \/ (docset < MaxSets /\ docset' = docset + 1)
        /\ UNCHANGED <<proposals, lines, quantities, unresolved, changes, critical>>
    BY DEF Quantities!ReceiveUpload, Quantities!AddDocument, Quantities!NewCandidate
  <1>3. uploads \in [Upload -> Quantities!UploadState] /\ docset \in 1 .. MaxSets
    BY DEF BoqInv, BoqTyped
  <1>4. docset' \in 1 .. MaxSets
    BY <1>2, <1>3 DEF QuantityConstants
  <1>5. /\ uploads' \in [Upload -> Quantities!UploadState]
        /\ uploads'[u] # "replaced"
        /\ \A v \in Upload : v # u => uploads'[v] = uploads[v]
    BY <1>1, <1>3 DEF Quantities!UploadState
  <1>6. Quantities!Replacements' = Quantities!Replacements
    BY <1>2, <1>5 DEF Quantities!Replacements
  <1> QED BY <1>2, <1>4, <1>5, <1>6, DocumentsStep

LEMMA BoqNextInv ==
    ASSUME QuantityConstants, BoqInv, [Quantities!BoqNext]_(Quantities!boqVars)
    PROVE  BoqInv'
  <1>1. ASSUME NEW p \in Estimator, Quantities!ProposeMapping(p)
        PROVE  BoqInv'
    <2>1. /\ "mapping" \in Quantities!Kind /\ proposals' = Quantities!WithProposal("mapping", p)
          /\ UNCHANGED <<lines, quantities, unresolved, changes, critical, docset, uploads>>
      BY <1>1 DEF Quantities!ProposeMapping, Quantities!Kind, Quantities!documentVars
    <2> QED BY <2>1, ProposedInv
  <1>2. ASSUME NEW p \in Estimator, Quantities!ProposeQuantity(p)
        PROVE  BoqInv'
    <2>1. /\ "quantity" \in Quantities!Kind /\ proposals' = Quantities!WithProposal("quantity", p)
          /\ UNCHANGED <<lines, quantities, unresolved, changes, critical, docset, uploads>>
      BY <1>2 DEF Quantities!ProposeQuantity, Quantities!Kind, Quantities!documentVars
    <2> QED BY <2>1, ProposedInv
  <1>3. ASSUME NEW p \in Estimator, NEW k \in Quantities!Kind, NEW d \in {"APPROVED", "REJECTED"},
               Quantities!DecideProposal(k, p, d)
        PROVE  BoqInv'
    BY <1>3, DecideProposalInv
  <1>4. ASSUME NEW p \in Estimator, Quantities!VerifyLine(p)
        PROVE  BoqInv'
    BY <1>4, VerifyLineInv
  <1>5. ASSUME NEW p \in Estimator, NEW d \in Draft, Quantities!CreateLine(p, d)
        PROVE  BoqInv'
    BY <1>5, CreateLineInv
  <1>6. ASSUME NEW p \in Estimator, NEW v \in Quantity, Quantities!ProposeChange(p, v)
        PROVE  BoqInv'
    BY <1>6, ProposeChangeInv
  <1>7. CASE Quantities!AttachImported
    <2>1. ImportedQuantity \in Quantity /\ Quantities!RecordInitial(ImportedQuantity, TRUE)
      BY <1>7 DEF Quantities!AttachImported, QuantityConstants
    <2> QED BY <2>1, RecordInitialInv
  <1>8. ASSUME NEW v \in Quantity, NEW passed \in BOOLEAN, Quantities!RecordInitial(v, passed)
        PROVE  BoqInv'
    BY <1>8, RecordInitialInv
  <1>9. ASSUME NEW c \in DOMAIN changes, Quantities!ApplyChange(c)
        PROVE  BoqInv'
    BY <1>9, ApplyChangeInv
  <1>10. ASSUME NEW c \in DOMAIN changes, NEW p \in Estimator, NEW d \in {"APPROVED", "REJECTED"},
                Quantities!DecideChange(c, p, d)
         PROVE  BoqInv'
    BY <1>10, DecideChangeInv
  <1>11. ASSUME NEW u \in Upload,
                \/ Quantities!ReceiveUpload(u)
                \/ Quantities!ReplaceDocument(u) \/ Quantities!AddDocument(u)
         PROVE  BoqInv'
    BY <1>11, ReplaceMeasuredDocumentInv, ReceiveOrAddDocumentInv
  <1>12. CASE Quantities!ConfirmSet \/ UNCHANGED Quantities!boqVars
    <2>1. UNCHANGED <<proposals, lines, quantities, unresolved, changes, critical, docset, uploads>>
      BY <1>12 DEF Quantities!ConfirmSet, Quantities!boqVars, Quantities!documentVars
    <2>2. /\ docset' \in 1 .. MaxSets /\ uploads' \in [Upload -> Quantities!UploadState]
          /\ Quantities!Replacements' = Quantities!Replacements
      BY <2>1 DEF BoqInv, BoqTyped, Quantities!Replacements
    <2> QED BY <2>1, <2>2, DocumentsStep
  <1> QED BY <1>1, <1>2, <1>3, <1>4, <1>5, <1>6, <1>7, <1>8, <1>9, <1>10, <1>11, <1>12
          DEF Quantities!BoqNext

\* The quantity before the i-th one of the same line is the one just before it.
LEMMA NewestBefore ==
    ASSUME BoqInv, NEW i \in 1 .. Len(quantities)
    PROVE  LET earlier == {j \in Quantities!OfLine(quantities[i].line) : j < i}
           IN  /\ (quantities[i].change = 0) = (earlier = {})
               /\ quantities[i].change # 0 => Quantities!Max(earlier) = i - 1
  <1> DEFINE earlier == {j \in Quantities!OfLine(quantities[i].line) : j < i}
  <1>1. /\ BoqTyped /\ Len(quantities) \in Nat /\ DOMAIN quantities = 1 .. Len(quantities)
        /\ \A j \in 1 .. Len(quantities) : quantities[j].line \in Nat
    BY BoqRows DEF BoqInv
  <1>2. earlier = {j \in 1 .. Len(quantities) : quantities[j].line = quantities[i].line /\ j < i}
    BY <1>1 DEF Quantities!OfLine
  <1>3. \A j \in 1 .. Len(quantities) : \A k \in 1 .. j : quantities[k].line <= quantities[j].line
    BY DEF BoqInv, Chained
  <1>4. quantities[i].change = 0 <=> (i = 1 \/ quantities[i - 1].line < quantities[i].line)
    BY DEF BoqInv, Chained
  <1> HIDE DEF earlier
  <1>5. i # 1 => i - 1 \in 1 .. Len(quantities) /\ i - 1 \in 1 .. i
    BY <1>1
  <1>6. CASE quantities[i].change = 0
    <2>1. ASSUME NEW j \in earlier
          PROVE  FALSE
      <3>1. j \in 1 .. Len(quantities) /\ quantities[j].line = quantities[i].line /\ j < i
        BY <1>2, <2>1
      <3>2. i # 1 /\ j \in 1 .. i - 1
        BY <1>1, <3>1
      <3>3. quantities[j].line <= quantities[i - 1].line /\ quantities[i - 1].line < quantities[i].line
        BY <1>3, <1>4, <1>5, <1>6, <3>2
      <3> QED BY <1>1, <1>5, <3>1, <3>2, <3>3
    <2> QED BY <1>6, <2>1 DEF earlier
  <1>7. CASE quantities[i].change # 0
    <2>1. i # 1 /\ ~ quantities[i - 1].line < quantities[i].line
      BY <1>4, <1>7
    <2>2. quantities[i - 1].line = quantities[i].line
      <3>1. quantities[i - 1].line <= quantities[i].line
        BY <1>3, <1>5, <2>1
      <3>2. quantities[i - 1].line \in Nat /\ quantities[i].line \in Nat
        BY <1>1, <1>5, <2>1
      <3> QED BY <2>1, <3>1, <3>2
    <2>3. i - 1 \in earlier /\ \A j \in earlier : j \in Nat /\ i - 1 >= j
      BY <1>1, <1>2, <1>5, <2>1, <2>2
    <2>4. (CHOOSE x \in earlier : \A y \in earlier : x >= y) = i - 1
      <3>1. \E x \in earlier : \A y \in earlier : x >= y
        BY <2>3
      <3>2. \A x \in earlier : (\A y \in earlier : x >= y) => x = i - 1
        BY <2>3, <1>1
      <3> QED BY <3>1, <3>2
    <2>5. Quantities!Max(earlier) = i - 1
      BY <2>4 DEF Quantities!Max
    <2>6. earlier # {}
      BY <2>3
    <2> QED BY <1>7, <2>5, <2>6 DEF earlier
  <1> QED BY <1>6, <1>7

LEMMA BoqHolds ==
    ASSUME BoqInv
    PROVE  Quantities!QuantityTypeOK /\ Quantities!QuantityStands
  <1>1. /\ BoqTyped /\ Len(quantities) \in Nat /\ DOMAIN quantities = 1 .. Len(quantities)
        /\ Len(changes) \in Nat /\ DOMAIN changes = 1 .. Len(changes)
    BY BoqRows DEF BoqInv
  <1>2. Quantities!QuantityTypeOK
    BY <1>1 DEF Quantities!QuantityTypeOK, BoqTyped
  <1>3. ASSUME NEW i \in 1 .. Len(quantities), quantities[i].change # 0
        PROVE  /\ quantities[i].change \in 1 .. Len(changes)
               /\ changes[quantities[i].change].previous = i - 1
               /\ changes[quantities[i].change].applied
               /\ changes[quantities[i].change].after = quantities[i].value
    BY <1>3 DEF BoqInv, Chained
  <1>4. ASSUME NEW c \in 1 .. Len(changes), changes[c].applied, critical
        PROVE  /\ changes[c].task \in {"APPROVED", "SUPERSEDED"}
               /\ changes[c].task = "APPROVED" <=> changes[c].seen = Quantities!Replacements
               /\ changes[c].previous + 1 \in 1 .. Len(quantities)
               /\ quantities[changes[c].previous + 1].change = c
    <2>1. ChangeStands(c, changes[c], quantities, critical, Quantities!Replacements)
      BY DEF BoqInv, ChangesStand
    <2> QED BY <1>4, <2>1 DEF ChangeStands
  <1>5. Quantities!ChainStands
    <2> SUFFICES ASSUME NEW i \in 1 .. Len(quantities)
                 PROVE  LET earlier == {j \in Quantities!OfLine(quantities[i].line) : j < i}
                            c == quantities[i].change
                        IN
                        /\ (c = 0) = (earlier = {})
                        /\ c # 0 => /\ changes[c].previous = Quantities!Max(earlier)
                                    /\ changes[c].applied /\ changes[c].after = quantities[i].value
                                    /\ critical => changes[c].task \in {"APPROVED", "SUPERSEDED"}
                                    /\ \A j \in DOMAIN quantities : quantities[j].change = c => j = i
                        /\ quantities[i].status = "VERIFIED" => i \notin unresolved
      BY <1>1 DEF Quantities!ChainStands
    <2> DEFINE earlier == {j \in Quantities!OfLine(quantities[i].line) : j < i}
               c == quantities[i].change
    <2>1. /\ (c = 0) = (earlier = {})
          /\ c # 0 => Quantities!Max(earlier) = i - 1
      BY NewestBefore
    <2> HIDE DEF earlier
    <2>2. quantities[i].status = "VERIFIED" => i \notin unresolved
      BY DEF BoqInv, Chained
    <2>3. ASSUME c # 0, NEW j \in DOMAIN quantities, quantities[j].change = c
          PROVE  j = i
      <3>1. j \in 1 .. Len(quantities) /\ changes[c].previous = i - 1 /\ changes[c].previous = j - 1
        BY <1>1, <1>3, <2>3
      <3> QED BY <3>1
    <2>4. c # 0 => /\ changes[c].previous = Quantities!Max(earlier)
                   /\ changes[c].applied /\ changes[c].after = quantities[i].value
                   /\ critical => changes[c].task \in {"APPROVED", "SUPERSEDED"}
      BY <1>3, <1>4, <2>1
    <2> QED BY <2>1, <2>2, <2>3, <2>4 DEF earlier
  <1>6. ASSUME critical, NEW c \in DOMAIN changes, changes[c].applied
        PROVE  Quantities!FourEyes(c) <=> changes[c].seen = Quantities!Replacements
    <2>1. c \in 1 .. Len(changes)
      BY <1>1, <1>6
    <2>2. /\ changes[c].task = "APPROVED" <=> changes[c].seen = Quantities!Replacements
          /\ changes[c].previous + 1 \in 1 .. Len(quantities)
          /\ quantities[changes[c].previous + 1].change = c
      BY <1>4, <1>6, <2>1
    <2> DEFINE i == changes[c].previous + 1
    <2>3. c # 0 /\ i \in 1 .. Len(quantities) /\ quantities[i].change = c
      BY <2>1, <2>2
    <2>4. Quantities!Max({j \in Quantities!OfLine(quantities[i].line) : j < i}) = i - 1
      BY <2>3, NewestBefore
    <2>5. i - 1 = changes[c].previous
      BY <1>1, <2>1, BoqRows
    <2>6. \E q \in DOMAIN quantities : /\ quantities[q].change = c
              /\ Quantities!Max({j \in Quantities!OfLine(quantities[q].line) : j < q})
                     = changes[c].previous
      BY <1>1, <2>3, <2>4, <2>5
    <2> QED BY <2>2, <2>6 DEF Quantities!FourEyes
  <1> QED BY <1>2, <1>5, <1>6 DEF Quantities!QuantityStands

-----------------------------------------------------------------------------
(* Cost models.                                                             *)

\* A model is current once it is validated, a document set has one current
\* model, and a validated one that is not names its successor.
CurrentOnce(rows, now) ==
    /\ \A m \in 1 .. Len(rows) :
          /\ rows[m].docset <= now
          /\ rows[m].current => rows[m].status = "VALIDATED"
          /\ rows[m].status = "VALIDATED" =>
                /\ rows[m].task \in {"APPROVED", "SUPERSEDED"}
                /\ \/ rows[m].current
                   \/ \E n \in 1 .. Len(rows) : /\ rows[n].docset = rows[m].docset
                                                /\ rows[n].status = "VALIDATED"
                                                /\ rows[n].supersedes = m
    /\ \A m, n \in 1 .. Len(rows) :
          rows[m].current /\ rows[n].current /\ rows[m].docset = rows[n].docset => m = n

\* What is found of a model stands until a newer one of its document set.
FindingsNewest(rows, found) ==
    \A m \in found : /\ m \in 1 .. Len(rows) /\ rows[m].status = "BLOCKED"
                     /\ \A n \in 1 .. Len(rows) : rows[n].docset = rows[m].docset => n <= m

\* A snapshot names a validated model, its policy and its document set.
SnapshotsRest(rows, fixedRows) ==
    /\ fixedRows \in Seq(Models!SnapshotRow) /\ Len(fixedRows) <= MaxSnapshots
    /\ \A s \in 1 .. Len(fixedRows) :
          /\ fixedRows[s].model \in 1 .. Len(rows)
          /\ rows[fixedRows[s].model].status = "VALIDATED"
          /\ rows[fixedRows[s].model].policy = fixedRows[s].policy
          /\ rows[fixedRows[s].model].docset = fixedRows[s].docset

\* The inductive invariant.
CostInv ==
    /\ costState \in Models!CostState /\ costPolicy \in Policy
    /\ term \in 1 .. MaxRevisions /\ docset \in 1 .. MaxSets
    /\ confirmed \in BOOLEAN /\ (~ confirmed => docset < MaxSets)
    /\ models \in Seq(Models!ModelRow) /\ Len(models) <= MaxModels
    /\ CurrentOnce(models, docset)
    /\ FindingsNewest(models, costFindings)
    /\ SnapshotsRest(models, snapshots)
    /\ scenarios \subseteq Models!ScenarioRow
    /\ \A r \in scenarios : r.snapshot \in 1 .. Len(snapshots)
                            /\ snapshots[r.snapshot].docset = r.docset

LEMMA CostInitInv ==
    ASSUME CostConstants, Models!CostInit
    PROVE  CostInv
  <1>1. /\ costState = "PRICING_IN_PROGRESS" /\ models = <<>> /\ costFindings = {}
        /\ costPolicy \in Policy /\ term = 1 /\ snapshots = <<>> /\ scenarios = {}
        /\ docset = 1 /\ confirmed = TRUE
    BY DEF Models!CostInit
  <1>2. /\ models \in Seq(Models!ModelRow) /\ Len(models) = 0
        /\ snapshots \in Seq(Models!SnapshotRow) /\ Len(snapshots) = 0
    BY <1>1, EmptySeq
  <1>3. CurrentOnce(models, docset)
    BY <1>2 DEF CurrentOnce
  <1>4. FindingsNewest(models, costFindings) /\ SnapshotsRest(models, snapshots)
    BY <1>1, <1>2 DEF FindingsNewest, SnapshotsRest, CostConstants
  <1>5. costState \in Models!CostState /\ term \in 1 .. MaxRevisions /\ docset \in 1 .. MaxSets
    BY <1>1 DEF Models!CostState, CostConstants
  <1>6. Len(models) <= MaxModels
    BY <1>2 DEF CostConstants
  <1> QED BY <1>1, <1>2, <1>3, <1>4, <1>5, <1>6 DEF CostInv

LEMMA ModelsTyped ==
    ASSUME CostInv
    PROVE  /\ Len(models) \in Nat /\ DOMAIN models = 1 .. Len(models)
           /\ \A m \in 1 .. Len(models) : models[m] \in Models!ModelRow
  BY HasLast DEF CostInv

\* Rows in which nothing changed but a task, or a review that ended unapproved.
ModelsKept(rows, newRows) ==
    /\ newRows \in Seq(Models!ModelRow) /\ Len(newRows) = Len(rows)
    /\ \A m \in 1 .. Len(rows) :
          /\ newRows[m].docset = rows[m].docset /\ newRows[m].current = rows[m].current
          /\ newRows[m].supersedes = rows[m].supersedes /\ newRows[m].policy = rows[m].policy
          /\ rows[m].status \in {"VALIDATED", "BLOCKED"} => newRows[m].status = rows[m].status
          /\ newRows[m].status = "VALIDATED" =>
                /\ rows[m].status = "VALIDATED"
                /\ rows[m].task \in {"APPROVED", "SUPERSEDED"} =>
                      newRows[m].task \in {"APPROVED", "SUPERSEDED"}

LEMMA KeptStands ==
    ASSUME NEW rows, NEW newRows, NEW now, NEW found, NEW fixedRows,
           ModelsKept(rows, newRows), CurrentOnce(rows, now),
           FindingsNewest(rows, found), SnapshotsRest(rows, fixedRows)
    PROVE  /\ CurrentOnce(newRows, now) /\ FindingsNewest(newRows, found)
           /\ SnapshotsRest(newRows, fixedRows)
  <1>0. Len(newRows) = Len(rows)
    BY DEF ModelsKept
  <1>1. ASSUME NEW m \in 1 .. Len(rows)
        PROVE  /\ newRows[m].docset <= now
               /\ newRows[m].current => newRows[m].status = "VALIDATED"
               /\ newRows[m].status = "VALIDATED" =>
                    /\ newRows[m].task \in {"APPROVED", "SUPERSEDED"}
                    /\ \/ newRows[m].current
                       \/ \E n \in 1 .. Len(rows) : /\ newRows[n].docset = newRows[m].docset
                                                    /\ newRows[n].status = "VALIDATED"
                                                    /\ newRows[n].supersedes = m
    <2>1. newRows[m].docset <= now
      BY DEF ModelsKept, CurrentOnce
    <2>2. newRows[m].current => newRows[m].status = "VALIDATED"
      BY DEF ModelsKept, CurrentOnce
    <2>3. ASSUME newRows[m].status = "VALIDATED"
          PROVE  newRows[m].task \in {"APPROVED", "SUPERSEDED"}
      BY <2>3 DEF ModelsKept, CurrentOnce
    <2>4. ASSUME newRows[m].status = "VALIDATED", ~ newRows[m].current
          PROVE  \E n \in 1 .. Len(rows) : /\ newRows[n].docset = newRows[m].docset
                                           /\ newRows[n].status = "VALIDATED"
                                           /\ newRows[n].supersedes = m
      <3>1. rows[m].status = "VALIDATED" /\ ~ rows[m].current
        BY <2>4 DEF ModelsKept
      <3>2. PICK n \in 1 .. Len(rows) : /\ rows[n].docset = rows[m].docset
                                        /\ rows[n].status = "VALIDATED"
                                        /\ rows[n].supersedes = m
        BY <3>1 DEF CurrentOnce
      <3> QED BY <3>2 DEF ModelsKept
    <2> QED BY <2>1, <2>2, <2>3, <2>4
  <1>2. \A m, n \in 1 .. Len(rows) :
          newRows[m].current /\ newRows[n].current /\ newRows[m].docset = newRows[n].docset => m = n
    BY DEF ModelsKept, CurrentOnce
  <1>3. CurrentOnce(newRows, now)
    BY <1>0, <1>1, <1>2 DEF CurrentOnce
  <1>4. FindingsNewest(newRows, found)
    BY <1>0 DEF ModelsKept, FindingsNewest
  <1>5. SnapshotsRest(newRows, fixedRows)
    BY <1>0 DEF ModelsKept, SnapshotsRest
  <1> QED BY <1>3, <1>4, <1>5

\* The proposals under review give way.
LEMMA SettledKept ==
    ASSUME CostConstants, CostInv
    PROVE  ModelsKept(models, Models!Settled)
  <1>1. /\ Len(models) \in Nat /\ DOMAIN models = 1 .. Len(models)
        /\ \A m \in 1 .. Len(models) : models[m] \in Models!ModelRow
    BY ModelsTyped
  <1>2. ASSUME NEW m \in 1 .. Len(models)
        PROVE  \/ Models!Settled[m] = models[m]
               \/ /\ models[m].status = "REVIEW_REQUIRED"
                  /\ Models!Settled[m] = [models[m] EXCEPT !.status = "BLOCKED"]
    BY <1>1 DEF Models!Settled, Models!Pending
  <1>3. ASSUME NEW m \in 1 .. Len(models)
        PROVE  /\ Models!Settled[m] \in Models!ModelRow
               /\ Models!Settled[m].docset = models[m].docset
               /\ Models!Settled[m].current = models[m].current
               /\ Models!Settled[m].supersedes = models[m].supersedes
               /\ Models!Settled[m].policy = models[m].policy
               /\ Models!Settled[m].task = models[m].task
               /\ Models!Settled[m].status = models[m].status
                  \/ (models[m].status = "REVIEW_REQUIRED" /\ Models!Settled[m].status = "BLOCKED")
    <2>1. models[m] \in Models!ModelRow
      BY <1>1
    <2> QED BY <1>2, <2>1 DEF Models!ModelRow
  <1>4. Models!Settled \in [1 .. Len(models) -> Models!ModelRow]
    BY <1>1, <1>3 DEF Models!Settled
  <1>5. Models!Settled \in Seq(Models!ModelRow) /\ Len(Models!Settled) = Len(models)
    BY <1>1, <1>4, Mapped
  <1> QED BY <1>3, <1>5 DEF ModelsKept

\* One more proposal, of the current document set and not yet validated.
LEMMA ProposalAdded ==
    ASSUME NEW rows \in Seq(Models!ModelRow), NEW now, NEW row \in Models!ModelRow, now \in Nat,
           NEW fixedRows, NEW newRows, newRows = Append(rows, row),
           CurrentOnce(rows, now), SnapshotsRest(rows, fixedRows),
           row.docset = now, ~ row.current, row.status # "VALIDATED"
    PROVE  CurrentOnce(newRows, now) /\ SnapshotsRest(newRows, fixedRows)
  <1>1. /\ Len(rows) \in Nat /\ Len(newRows) = Len(rows) + 1 /\ newRows[Len(rows) + 1] = row
        /\ \A i \in 1 .. Len(rows) : newRows[i] = rows[i]
    BY Longer, LenProperties
  <1>2. \A i \in 1 .. Len(newRows) : i \in 1 .. Len(rows) \/ newRows[i] = row
    BY <1>1
  <1>3. \A i \in 1 .. Len(rows) : i \in 1 .. Len(newRows)
    BY <1>1
  <1>4. CurrentOnce(newRows, now)
    <2>1. ASSUME NEW m \in 1 .. Len(newRows)
          PROVE  /\ newRows[m].docset <= now
                 /\ newRows[m].current => newRows[m].status = "VALIDATED"
                 /\ newRows[m].status = "VALIDATED" =>
                      /\ newRows[m].task \in {"APPROVED", "SUPERSEDED"}
                      /\ \/ newRows[m].current
                         \/ \E n \in 1 .. Len(newRows) : /\ newRows[n].docset = newRows[m].docset
                                                         /\ newRows[n].status = "VALIDATED"
                                                         /\ newRows[n].supersedes = m
      <3>1. CASE newRows[m] = row
        BY <3>1
      <3>2. CASE m \in 1 .. Len(rows)
        BY <1>1, <1>3, <3>2 DEF CurrentOnce
      <3> QED BY <1>2, <3>1, <3>2
    <2>2. ASSUME NEW m \in 1 .. Len(newRows), NEW n \in 1 .. Len(newRows),
                 newRows[m].current, newRows[n].current, newRows[m].docset = newRows[n].docset
          PROVE  m = n
      <3>1. m \in 1 .. Len(rows) /\ n \in 1 .. Len(rows)
        BY <1>2, <2>2
      <3> QED BY <1>1, <2>2, <3>1 DEF CurrentOnce
    <2> QED BY <2>1, <2>2 DEF CurrentOnce
  <1>5. SnapshotsRest(newRows, fixedRows)
    BY <1>1, <1>3 DEF SnapshotsRest
  <1> QED BY <1>4, <1>5

LEMMA ProposeInv ==
    ASSUME CostConstants, CostInv, NEW p \in Estimator, NEW passed \in BOOLEAN,
           Models!Propose(p, passed)
    PROVE  CostInv'
  <1> DEFINE row == [by |-> p, policy |-> costPolicy, term |-> term, docset |-> docset,
                     status |-> IF passed THEN "REVIEW_REQUIRED" ELSE "BLOCKED",
                     current |-> FALSE, supersedes |-> Models!IdOf(Models!Current),
                     task |-> IF passed THEN "PENDING" ELSE "none"]
  <1>1. /\ Len(models) < MaxModels /\ models' = Append(Models!Settled, row)
        /\ costFindings' = (costFindings \ Models!OfTarget)
              \cup (IF passed THEN {} ELSE {Len(models) + 1})
        /\ UNCHANGED <<costState, costPolicy, term, snapshots, scenarios, docset, confirmed>>
    BY DEF Models!Propose
  <1>2. /\ Len(models) \in Nat /\ DOMAIN models = 1 .. Len(models)
        /\ \A m \in 1 .. Len(models) : models[m] \in Models!ModelRow
    BY ModelsTyped
  <1>3. Models!IdOf(Models!Current) \in 0 .. MaxModels
    <2>1. Models!Current \subseteq 1 .. Len(models)
      BY <1>2 DEF Models!Current, Models!OfTarget
    <2>2. 1 .. Len(models) \subseteq 0 .. MaxModels /\ 0 \in 0 .. MaxModels
      BY <1>1, <1>2 DEF CostConstants
    <2> QED BY <2>1, <2>2 DEF Models!IdOf
  <1>4. row \in Models!ModelRow
    BY <1>3 DEF Models!ModelRow, CostInv
  <1>5. /\ row.docset = docset /\ ~ row.current /\ row.status # "VALIDATED"
        /\ ~ passed => row.status = "BLOCKED"
    OBVIOUS
  <1> HIDE DEF row
  <1>6. ModelsKept(models, Models!Settled)
    BY SettledKept
  <1>7. CurrentOnce(Models!Settled, docset) /\ FindingsNewest(Models!Settled, costFindings)
        /\ SnapshotsRest(Models!Settled, snapshots)
    <2>1. CurrentOnce(models, docset) /\ FindingsNewest(models, costFindings)
          /\ SnapshotsRest(models, snapshots)
      BY DEF CostInv
    <2> QED BY <1>6, <2>1, KeptStands
  <1>8. Models!Settled \in Seq(Models!ModelRow) /\ Len(Models!Settled) = Len(models)
    BY <1>6 DEF ModelsKept
  <1>9. docset \in Nat /\ docset \in 1 .. MaxSets
    BY DEF CostInv, CostConstants
  <1>10. CurrentOnce(models', docset) /\ SnapshotsRest(models', snapshots)
    BY <1>1, <1>4, <1>5, <1>7, <1>8, <1>9, ProposalAdded
  <1>11. /\ models' \in Seq(Models!ModelRow) /\ Len(models') = Len(models) + 1
         /\ models'[Len(models) + 1] = row
         /\ \A i \in 1 .. Len(models) : models'[i] = Models!Settled[i]
    BY <1>1, <1>4, <1>8, Longer
  <1>12. FindingsNewest(models', costFindings')
    <2> SUFFICES ASSUME NEW m \in costFindings'
                 PROVE  /\ m \in 1 .. Len(models') /\ models'[m].status = "BLOCKED"
                        /\ \A n \in 1 .. Len(models') : models'[n].docset = models'[m].docset => n <= m
      BY DEF FindingsNewest
    <2>1. CASE ~ passed /\ m = Len(models) + 1
      BY <1>2, <1>5, <1>11, <2>1
    <2>2. CASE m \in costFindings /\ m \notin Models!OfTarget
      <3>1. /\ m \in 1 .. Len(models) /\ Models!Settled[m].status = "BLOCKED"
            /\ \A n \in 1 .. Len(models) : Models!Settled[n].docset = Models!Settled[m].docset => n <= m
        BY <1>7, <1>8, <2>2 DEF FindingsNewest
      <3>2. models'[m] = Models!Settled[m] /\ m \in 1 .. Len(models')
        BY <1>2, <1>11, <3>1
      <3>3. models'[m].docset # docset
        <4>1. Models!Settled[m].docset = models[m].docset
          BY <1>6, <3>1 DEF ModelsKept
        <4> QED BY <1>2, <2>2, <3>1, <3>2, <4>1 DEF Models!OfTarget
      <3>4. \A n \in 1 .. Len(models') : n \in 1 .. Len(models) \/ n = Len(models) + 1
        BY <1>2, <1>11
      <3> QED BY <1>5, <1>11, <3>1, <3>2, <3>3, <3>4
    <2> QED BY <1>1, <2>1, <2>2
  <1>13. Len(models') <= MaxModels
    BY <1>1, <1>2, <1>11 DEF CostConstants
  <1>14. CurrentOnce(models', docset') /\ SnapshotsRest(models', snapshots')
    BY <1>1, <1>10
  <1> QED BY <1>1, <1>11, <1>12, <1>13, <1>14 DEF CostInv

\* The rows change in their tasks only.
LEMMA TasksChanged ==
    ASSUME CostInv, ModelsKept(models, models'),
           UNCHANGED <<costFindings, costPolicy, term, snapshots, scenarios, docset>>,
           costState' \in Models!CostState, confirmed' \in BOOLEAN,
           ~ confirmed' => docset < MaxSets
    PROVE  CostInv'
  <1>1. CurrentOnce(models, docset) /\ FindingsNewest(models, costFindings)
        /\ SnapshotsRest(models, snapshots)
    BY DEF CostInv
  <1>2. CurrentOnce(models', docset) /\ FindingsNewest(models', costFindings)
        /\ SnapshotsRest(models', snapshots)
    BY <1>1, KeptStands
  <1>3. CurrentOnce(models', docset') /\ FindingsNewest(models', costFindings')
        /\ SnapshotsRest(models', snapshots')
    BY <1>2
  <1>4. models' \in Seq(Models!ModelRow) /\ Len(models') <= MaxModels
    BY DEF ModelsKept, CostInv
  <1> QED BY <1>3, <1>4 DEF CostInv

LEMMA DecideModelInv ==
    ASSUME CostInv, NEW m \in DOMAIN models, NEW p \in Estimator,
           NEW d \in {"APPROVED", "REJECTED"}, Models!DecideModel(m, p, d)
    PROVE  CostInv'
  <1>1. /\ models[m].task = "PENDING"
        /\ models' = [models EXCEPT ![m].task = d]
        /\ UNCHANGED <<costState, costFindings, costPolicy, term, snapshots, scenarios, docset,
                       confirmed>>
    BY DEF Models!DecideModel
  <1>2. /\ Len(models) \in Nat /\ DOMAIN models = 1 .. Len(models)
        /\ \A i \in 1 .. Len(models) : models[i] \in Models!ModelRow
    BY ModelsTyped
  <1> DEFINE row == [models[m] EXCEPT !.task = d]
  <1>3. /\ row \in Models!ModelRow /\ row.docset = models[m].docset
        /\ row.current = models[m].current /\ row.supersedes = models[m].supersedes
        /\ row.policy = models[m].policy /\ row.status = models[m].status
    BY <1>2 DEF Models!ModelRow
  <1>4. models' = [models EXCEPT ![m] = row]
    BY <1>1
  <1> HIDE DEF row
  <1>5. /\ models' \in Seq(Models!ModelRow) /\ Len(models') = Len(models)
        /\ \A i \in 1 .. Len(models) : models'[i] = IF i = m THEN row ELSE models[i]
    BY <1>2, <1>3, <1>4, ExceptSeq DEF CostInv
  <1>6. ModelsKept(models, models')
    BY <1>1, <1>2, <1>3, <1>5 DEF ModelsKept
  <1>7. costState' \in Models!CostState /\ confirmed' \in BOOLEAN /\ (~ confirmed' => docset < MaxSets)
    BY <1>1 DEF CostInv
  <1> QED BY <1>1, <1>6, <1>7, TasksChanged

LEMMA ReplaceCostDocumentInv ==
    ASSUME CostInv, Models!ReplaceDocument
    PROVE  CostInv'
  <1>1. /\ docset < MaxSets /\ confirmed' = FALSE /\ costState' = "BLOCKED"
        /\ models' = [m \in DOMAIN models |->
             IF models[m].task # "none" THEN [models[m] EXCEPT !.task = "SUPERSEDED"] ELSE models[m]]
        /\ UNCHANGED <<costFindings, costPolicy, term, snapshots, scenarios, docset>>
    BY DEF Models!ReplaceDocument
  <1>2. /\ Len(models) \in Nat /\ DOMAIN models = 1 .. Len(models)
        /\ \A i \in 1 .. Len(models) : models[i] \in Models!ModelRow
    BY ModelsTyped
  <1>3. ASSUME NEW m \in 1 .. Len(models)
        PROVE  /\ models'[m] \in Models!ModelRow
               /\ models'[m].docset = models[m].docset /\ models'[m].current = models[m].current
               /\ models'[m].supersedes = models[m].supersedes
               /\ models'[m].policy = models[m].policy /\ models'[m].status = models[m].status
               /\ models'[m].task \in {models[m].task, "SUPERSEDED"}
    <2>1. models[m] \in Models!ModelRow
      BY <1>2
    <2>2. models'[m] \in {models[m], [models[m] EXCEPT !.task = "SUPERSEDED"]}
      BY <1>1, <1>2
    <2> QED BY <2>1, <2>2 DEF Models!ModelRow
  <1>4. models' \in [1 .. Len(models) -> Models!ModelRow]
    BY <1>1, <1>2, <1>3
  <1>5. models' \in Seq(Models!ModelRow) /\ Len(models') = Len(models)
    BY <1>2, <1>4, Mapped
  <1>6. ModelsKept(models, models')
    BY <1>3, <1>5 DEF ModelsKept
  <1>7. costState' \in Models!CostState /\ confirmed' \in BOOLEAN
    BY <1>1 DEF Models!CostState
  <1> QED BY <1>1, <1>6, <1>7, TasksChanged

LEMMA FinalizeInv ==
    ASSUME CostInv, NEW m \in DOMAIN models, Models!Finalize(m)
    PROVE  CostInv'
  <1>1. /\ models[m].status = "REVIEW_REQUIRED" /\ models[m].docset = docset
        /\ models[m].task = "APPROVED" /\ models[m].supersedes = Models!IdOf(Models!Current)
        /\ models' = [n \in DOMAIN models |->
            IF n = m THEN [models[n] EXCEPT !.status = "VALIDATED", !.current = TRUE]
            ELSE IF n \in Models!Current THEN [models[n] EXCEPT !.current = FALSE]
            ELSE models[n]]
        /\ costFindings' = costFindings \ Models!OfTarget
        /\ UNCHANGED <<costState, costPolicy, term, snapshots, scenarios, docset, confirmed>>
    BY DEF Models!Finalize, Models!Finalizable
  <1>2. /\ Len(models) \in Nat /\ DOMAIN models = 1 .. Len(models)
        /\ \A i \in 1 .. Len(models) : models[i] \in Models!ModelRow
    BY ModelsTyped
  <1>3. ASSUME NEW n \in 1 .. Len(models)
        PROVE  /\ models'[n] \in Models!ModelRow
               /\ models'[n].docset = models[n].docset /\ models'[n].task = models[n].task
               /\ models'[n].supersedes = models[n].supersedes
               /\ models'[n].policy = models[n].policy
               /\ models'[n].status = IF n = m THEN "VALIDATED" ELSE models[n].status
               /\ models'[n].current = IF n = m THEN TRUE
                                       ELSE IF n \in Models!Current THEN FALSE
                                       ELSE models[n].current
    <2>1. models[n] \in Models!ModelRow
      BY <1>2
    <2>2. models'[n] = IF n = m THEN [models[n] EXCEPT !.status = "VALIDATED", !.current = TRUE]
            ELSE IF n \in Models!Current THEN [models[n] EXCEPT !.current = FALSE]
            ELSE models[n]
      BY <1>1, <1>2
    <2>3. CASE n = m
      BY <2>1, <2>2, <2>3 DEF Models!ModelRow
    <2>4. CASE n # m /\ n \in Models!Current
      BY <2>1, <2>2, <2>4 DEF Models!ModelRow
    <2>5. CASE n # m /\ n \notin Models!Current
      BY <2>1, <2>2, <2>5
    <2> QED BY <2>3, <2>4, <2>5
  <1>4. models' \in [1 .. Len(models) -> Models!ModelRow]
    BY <1>1, <1>2, <1>3
  <1>5. models' \in Seq(Models!ModelRow) /\ Len(models') = Len(models)
    BY <1>2, <1>4, Mapped
  <1>6. CurrentOnce(models, docset) /\ FindingsNewest(models, costFindings)
        /\ SnapshotsRest(models, snapshots) /\ m \in 1 .. Len(models)
    BY <1>2 DEF CostInv
  <1>7. \A n \in 1 .. Len(models) : n \in Models!Current <=> models[n].docset = docset /\ models[n].current
    BY <1>2 DEF Models!Current, Models!OfTarget
  <1>8. \A n \in Models!Current : models[m].supersedes = n
    <2> SUFFICES ASSUME NEW n \in Models!Current
                 PROVE  models[m].supersedes = n
      OBVIOUS
    <2>1. n \in 1 .. Len(models)
      BY <1>2 DEF Models!Current, Models!OfTarget
    <2>2. \A i \in Models!Current : i = n
      <3> SUFFICES ASSUME NEW i \in Models!Current
                   PROVE  i = n
        OBVIOUS
      <3>1. i \in 1 .. Len(models)
        BY <1>2 DEF Models!Current, Models!OfTarget
      <3> QED BY <1>6, <1>7, <2>1, <3>1 DEF CurrentOnce
    <2>3. Models!IdOf(Models!Current) \in Models!Current
      BY DEF Models!IdOf
    <2> QED BY <1>1, <2>2, <2>3
  <1>14. models[m].docset = docset /\ models[m].task = "APPROVED"
    BY <1>1
  <1>9. CurrentOnce(models', docset)
    <2>1. ASSUME NEW n \in 1 .. Len(models)
          PROVE  /\ models'[n].docset <= docset
                 /\ models'[n].current => models'[n].status = "VALIDATED"
                 /\ models'[n].status = "VALIDATED" => models'[n].task \in {"APPROVED", "SUPERSEDED"}
      <3>1. /\ models[n].docset <= docset
            /\ models[n].current => models[n].status = "VALIDATED"
            /\ models[n].status = "VALIDATED" => models[n].task \in {"APPROVED", "SUPERSEDED"}
        BY <1>6 DEF CurrentOnce
      <3>2. CASE n = m
        BY <1>3, <1>14, <3>1, <3>2
      <3>3. CASE n # m
        BY <1>3, <3>1, <3>3
      <3> QED BY <3>2, <3>3
    <2>2. ASSUME NEW n \in 1 .. Len(models), models'[n].status = "VALIDATED", ~ models'[n].current
          PROVE  \E i \in 1 .. Len(models) : /\ models'[i].docset = models'[n].docset
                                             /\ models'[i].status = "VALIDATED"
                                             /\ models'[i].supersedes = n
      <3>1. n # m /\ models[n].status = "VALIDATED"
        BY <1>3, <2>2
      <3>2. CASE n \in Models!Current
        <4>1. models[n].docset = docset /\ models[m].supersedes = n
          BY <1>7, <1>8, <3>2
        <4>2. /\ models'[m].docset = models'[n].docset /\ models'[m].status = "VALIDATED"
              /\ models'[m].supersedes = n
          BY <1>3, <1>6, <1>14, <4>1
        <4> QED BY <1>6, <4>2
      <3>3. CASE n \notin Models!Current
        <4>1. ~ models[n].current
          BY <1>3, <2>2, <3>1, <3>3
        <4>2. PICK i \in 1 .. Len(models) : /\ models[i].docset = models[n].docset
                                            /\ models[i].status = "VALIDATED"
                                            /\ models[i].supersedes = n
          BY <1>6, <3>1, <4>1 DEF CurrentOnce
        <4> QED BY <1>3, <4>2
      <3> QED BY <3>2, <3>3
    <2>3. ASSUME NEW i \in 1 .. Len(models), NEW n \in 1 .. Len(models),
                 models'[i].current, models'[n].current, models'[i].docset = models'[n].docset
          PROVE  i = n
      <3>1. \A j \in 1 .. Len(models) : models'[j].current /\ j # m =>
                models[j].current /\ models[j].docset # docset
        BY <1>3, <1>7
      <3>2. models[i].docset = models[n].docset
        BY <1>3, <2>3
      <3>3. CASE i # m /\ n # m
        BY <1>6, <2>3, <3>1, <3>2, <3>3 DEF CurrentOnce
      <3>4. CASE i = m /\ n # m
        BY <1>14, <2>3, <3>1, <3>2, <3>4
      <3>5. CASE i # m /\ n = m
        BY <1>14, <2>3, <3>1, <3>2, <3>5
      <3> QED BY <3>3, <3>4, <3>5
    <2> QED BY <1>5, <2>1, <2>2, <2>3 DEF CurrentOnce
  <1>10. FindingsNewest(models', costFindings')
    <2>1. \A n \in costFindings' : n \in costFindings /\ n \in 1 .. Len(models) /\ n # m
      BY <1>1, <1>2, <1>6 DEF FindingsNewest, Models!OfTarget
    <2> QED BY <1>3, <1>5, <1>6, <2>1 DEF FindingsNewest
  <1>11. SnapshotsRest(models', snapshots)
    BY <1>3, <1>5, <1>6 DEF SnapshotsRest
  <1>12. CurrentOnce(models', docset') /\ SnapshotsRest(models', snapshots')
    BY <1>1, <1>9, <1>11
  <1>13. Len(models') <= MaxModels
    BY <1>5 DEF CostInv
  <1> QED BY <1>1, <1>5, <1>10, <1>12, <1>13 DEF CostInv

LEMMA CalculateInv ==
    ASSUME CostConstants, CostInv, NEW m \in DOMAIN models, Models!Calculate(m)
    PROVE  CostInv'
  <1> DEFINE row == [model |-> m, policy |-> costPolicy, docset |-> docset]
  <1>1. /\ Len(snapshots) < MaxSnapshots /\ Models!Current = {m}
        /\ models[m].status = "VALIDATED" /\ models[m].policy = costPolicy
        /\ snapshots' = Append(snapshots, row) /\ costState' = "INDEPENDENT_VALIDATION"
        /\ UNCHANGED <<models, costFindings, costPolicy, term, scenarios, docset, confirmed>>
    BY DEF Models!Calculate, Models!Calculable, Models!Resolved
  <1>2. Len(models) \in Nat /\ DOMAIN models = 1 .. Len(models)
    BY ModelsTyped
  <1>3. models[m].docset = docset
    BY <1>1 DEF Models!Current, Models!OfTarget
  <1>4. row \in Models!SnapshotRow
    <2>1. m \in 1 .. MaxModels
      BY <1>2 DEF CostInv, CostConstants
    <2> QED BY <2>1 DEF Models!SnapshotRow, CostInv
  <1>5. row.model = m /\ row.policy = costPolicy /\ row.docset = docset
    OBVIOUS
  <1> HIDE DEF row
  <1>6. SnapshotsRest(models, snapshots) /\ Len(snapshots) \in Nat
        /\ snapshots \in Seq(Models!SnapshotRow)
    BY LenProperties DEF CostInv, SnapshotsRest
  <1>7. /\ snapshots' \in Seq(Models!SnapshotRow) /\ Len(snapshots') = Len(snapshots) + 1
        /\ snapshots'[Len(snapshots) + 1] = row
        /\ \A i \in 1 .. Len(snapshots) : snapshots'[i] = snapshots[i]
    BY <1>1, <1>4, <1>6, Longer
  <1>8. \A i \in 1 .. Len(snapshots') : i \in 1 .. Len(snapshots) \/ snapshots'[i] = row
    BY <1>6, <1>7
  <1>9. Len(snapshots') <= MaxSnapshots
    BY <1>1, <1>6, <1>7 DEF CostConstants
  <1>10. SnapshotsRest(models, snapshots')
    BY <1>1, <1>2, <1>3, <1>5, <1>6, <1>7, <1>8, <1>9 DEF SnapshotsRest
  <1>11. \A r \in scenarios : r.snapshot \in 1 .. Len(snapshots')
                              /\ snapshots'[r.snapshot].docset = r.docset
    BY <1>6, <1>7 DEF CostInv
  <1>12. SnapshotsRest(models', snapshots') /\ costState' \in Models!CostState
    BY <1>1, <1>10 DEF Models!CostState
  <1> QED BY <1>1, <1>11, <1>12 DEF CostInv

LEMMA CostNextInv ==
    ASSUME CostConstants, CostInv, [Models!CostNext]_(Models!costVars)
    PROVE  CostInv'
  <1>0. /\ CurrentOnce(models, docset) /\ costState \in Models!CostState
        /\ costPolicy \in Policy /\ term \in 1 .. MaxRevisions
    BY DEF CostInv
  <1>1. ASSUME UNCHANGED <<models, costFindings, snapshots, scenarios, docset, confirmed>>,
               costState' \in Models!CostState, costPolicy' \in Policy, term' \in 1 .. MaxRevisions
        PROVE  CostInv'
    BY <1>1 DEF CostInv
  <1>2. ASSUME NEW p \in Estimator, NEW passed \in BOOLEAN, Models!Propose(p, passed)
        PROVE  CostInv'
    BY <1>2, ProposeInv
  <1>3. ASSUME NEW m \in DOMAIN models, NEW p \in Estimator, NEW d \in {"APPROVED", "REJECTED"},
               Models!DecideModel(m, p, d)
        PROVE  CostInv'
    BY <1>3, DecideModelInv
  <1>4. ASSUME NEW m \in DOMAIN models, Models!Finalize(m)
        PROVE  CostInv'
    BY <1>4, FinalizeInv
  <1>5. ASSUME NEW m \in DOMAIN models, Models!Calculate(m)
        PROVE  CostInv'
    BY <1>5, CalculateInv
  <1>6. ASSUME NEW s \in Models!CostState, Models!Move(s)
        PROVE  CostInv'
    BY <1>0, <1>1, <1>6 DEF Models!Move
  <1>7. ASSUME NEW s \in DOMAIN snapshots, Models!RunScenario(s)
        PROVE  CostInv'
    <2> DEFINE row == [snapshot |-> s, docset |-> docset]
    <2>1. /\ snapshots[s].docset = docset /\ scenarios' = scenarios \cup {row}
          /\ UNCHANGED <<costState, models, costFindings, costPolicy, term, snapshots, docset,
                         confirmed>>
      BY <1>7 DEF Models!RunScenario
    <2>2. s \in 1 .. Len(snapshots) /\ Len(snapshots) \in Nat /\ Len(snapshots) <= MaxSnapshots
      BY LenProperties DEF CostInv, SnapshotsRest
    <2>3. row \in Models!ScenarioRow
      <3>1. s \in 1 .. MaxSnapshots
        BY <2>2 DEF CostConstants
      <3> QED BY <3>1 DEF Models!ScenarioRow, CostInv
    <2>4. row.snapshot = s /\ row.docset = docset
      OBVIOUS
    <2> HIDE DEF row
    <2>5. \A r \in scenarios' : r.snapshot \in 1 .. Len(snapshots)
                                /\ snapshots[r.snapshot].docset = r.docset
      BY <2>1, <2>2, <2>4 DEF CostInv
    <2> QED BY <2>1, <2>3, <2>5 DEF CostInv
  <1>8. ASSUME NEW l \in Policy, Models!BindPolicy(l)
        PROVE  CostInv'
    BY <1>0, <1>1, <1>8 DEF Models!BindPolicy
  <1>9. CASE Models!ReviseTerm
    <2>1. term' \in 1 .. MaxRevisions
      BY <1>0, <1>9 DEF Models!ReviseTerm, CostConstants
    <2> QED BY <1>0, <1>1, <1>9, <2>1 DEF Models!ReviseTerm
  <1>10. CASE Models!ReplaceDocument
    BY <1>10, ReplaceCostDocumentInv
  <1>11. CASE Models!ConfirmSet
    <2>1. /\ docset' = docset + 1 /\ docset' \in 1 .. MaxSets /\ confirmed' = TRUE
          /\ docset \in Nat
          /\ UNCHANGED <<costState, models, costFindings, costPolicy, term, snapshots, scenarios>>
      BY <1>11 DEF Models!ConfirmSet, CostInv, CostConstants
    <2>2. CurrentOnce(models, docset')
      <3>1. \A m \in 1 .. Len(models) : models[m].docset <= docset'
        <4> SUFFICES ASSUME NEW m \in 1 .. Len(models)
                     PROVE  models[m].docset <= docset'
          OBVIOUS
        <4>1. models[m] \in Models!ModelRow
          BY ModelsTyped
        <4>2. models[m].docset \in 1 .. MaxSets /\ models[m].docset <= docset
          BY <1>0, <4>1 DEF CurrentOnce, Models!ModelRow
        <4> QED BY <2>1, <4>2
      <3> QED BY <1>0, <3>1 DEF CurrentOnce
    <2>3. CurrentOnce(models', docset')
      BY <2>1, <2>2
    <2> QED BY <2>1, <2>3 DEF CostInv
  <1>12. CASE UNCHANGED Models!costVars
    BY <1>0, <1>1, <1>12 DEF Models!costVars
  <1> QED BY <1>2, <1>3, <1>4, <1>5, <1>6, <1>7, <1>8, <1>9, <1>10, <1>11, <1>12 DEF Models!CostNext

LEMMA CostHolds ==
    ASSUME CostInv
    PROVE  Models!ModelTypeOK /\ Models!ModelStands
  <1>1. /\ Len(models) \in Nat /\ DOMAIN models = 1 .. Len(models)
        /\ DOMAIN snapshots = 1 .. Len(snapshots)
    BY ModelsTyped, LenProperties DEF CostInv, SnapshotsRest
  <1>2. CurrentOnce(models, docset) /\ FindingsNewest(models, costFindings)
        /\ SnapshotsRest(models, snapshots)
    BY DEF CostInv
  <1>3. Models!ModelTypeOK
    BY <1>1, <1>2 DEF Models!ModelTypeOK, CostInv, FindingsNewest, SnapshotsRest
  <1>4. Models!OneCurrentModel
    <2> SUFFICES ASSUME NEW d \in 1 .. MaxSets
                 PROVE  LET validated == {m \in DOMAIN models :
                                models[m].docset = d /\ models[m].status = "VALIDATED"} IN
                        /\ Models!Cardinality({m \in validated : models[m].current}) <= 1
                        /\ \A m \in validated : models[m].current \/ \E n \in validated :
                                                                       models[n].supersedes = m
      BY DEF Models!OneCurrentModel
    <2> DEFINE validated == {m \in DOMAIN models :
                                models[m].docset = d /\ models[m].status = "VALIDATED"}
    <2>1. Models!Cardinality({m \in validated : models[m].current}) <= 1
      <3>0. \A S : Models!Cardinality(S) = Cardinality(S)
        BY DEF Models!Cardinality, Cardinality
      <3>1. CASE {m \in validated : models[m].current} = {}
        BY <3>0, <3>1, FS_EmptySet
      <3>2. CASE {m \in validated : models[m].current} # {}
        <4>1. PICK m : m \in {n \in validated : models[n].current}
          BY <3>2
        <4>2. {n \in validated : models[n].current} = {m}
          BY <1>1, <1>2, <4>1 DEF CurrentOnce
        <4>3. Cardinality({m}) = 1
          BY FS_Singleton
        <4> HIDE DEF validated
        <4> QED BY <3>0, <4>2, <4>3
      <3> QED BY <3>1, <3>2
    <2>2. \A m \in validated : models[m].current \/ \E n \in validated : models[n].supersedes = m
      BY <1>1, <1>2 DEF CurrentOnce
    <2> QED BY <2>1, <2>2
  <1>5. Models!SnapshotsRestOnModels
    <2>1. ASSUME NEW s \in DOMAIN snapshots
          PROVE  models[snapshots[s].model].task \in {"APPROVED", "SUPERSEDED"}
      BY <1>1, <1>2 DEF CurrentOnce, SnapshotsRest
    <2>2. ASSUME NEW s \in DOMAIN snapshots
          PROVE  /\ models[snapshots[s].model].status = "VALIDATED"
                 /\ models[snapshots[s].model].policy = snapshots[s].policy
                 /\ models[snapshots[s].model].docset = snapshots[s].docset
      BY <1>1, <1>2 DEF SnapshotsRest
    <2>3. \A r \in scenarios : snapshots[r.snapshot].docset = r.docset
      BY DEF CostInv
    <2> QED BY <2>1, <2>2, <2>3 DEF Models!SnapshotsRestOnModels
  <1>6. ASSUME Models!PricingGate
        PROVE  costFindings \cap Models!OfTarget = {}
    <2> SUFFICES ASSUME NEW m \in costFindings, m \in Models!OfTarget
                 PROVE  FALSE
      OBVIOUS
    <2> DEFINE newest == Models!Newest
    <2>1. newest \in Models!Current
      BY <1>6 DEF Models!PricingGate
    <2>2. newest \in 1 .. Len(models) /\ models[newest].docset = docset /\ models[newest].current
      BY <1>1, <2>1 DEF Models!Current, Models!OfTarget
    <2>3. /\ m \in 1 .. Len(models) /\ models[m].status = "BLOCKED" /\ models[m].docset = docset
          /\ \A n \in 1 .. Len(models) : models[n].docset = docset => n <= m
      BY <1>2 DEF FindingsNewest, Models!OfTarget
    <2>4. \A n \in Models!OfTarget : n <= m
      BY <1>1, <2>3 DEF Models!OfTarget
    <2>5. \A n \in Models!OfTarget : n <= newest
      BY <2>4 DEF Models!Newest
    <2>6. m <= newest /\ newest <= m
      BY <2>2, <2>3, <2>5
    <2> HIDE DEF newest
    <2>7. m = newest
      BY <1>1, <2>2, <2>3, <2>6
    <2>8. models[newest].status = "VALIDATED"
      BY <1>2, <2>2 DEF CurrentOnce
    <2> QED BY <2>3, <2>7, <2>8
  <1> QED BY <1>3, <1>4, <1>5, <1>6 DEF Models!ModelStands

-----------------------------------------------------------------------------
(* Lineage and signed packages.                                             *)

\* The recursive definitions have solutions: the greatest set of visits that is
\* closed under the step.
LEMMA ResolvesDefined ==
    ASSUME LineageConstants
    PROVE  Packages!Resolves = [v \in Packages!Visit |->
               /\ Sources[v[2]] \cap v[1] = {}
               /\ \A s \in Sources[v[2]] : Packages!Resolves[<<v[1] \cup {s}, s>>]]
  <1> DEFINE V == Packages!Visit
             down(v, s) == <<v[1] \cup {s}, s>>
             closed(T) == \A v \in T : /\ Sources[v[2]] \cap v[1] = {}
                                       /\ \A s \in Sources[v[2]] : down(v, s) \in T
             G == UNION {T \in SUBSET V : closed(T)}
             g == [v \in V |-> v \in G]
  <1>1. \A v \in V : \A s \in Sources[v[2]] : down(v, s) \in V
    BY DEF LineageConstants, Packages!Visit
  <1>2. G \subseteq V /\ closed(G)
    OBVIOUS
  <1>3. ASSUME NEW T \in SUBSET V, closed(T)
        PROVE  T \subseteq G
    BY <1>3
  <1> HIDE DEF V, G, down
  <1>4. ASSUME NEW v \in V, Sources[v[2]] \cap v[1] = {},
               \A s \in Sources[v[2]] : down(v, s) \in G
        PROVE  v \in G
    <2> DEFINE T == G \cup {v}
    <2>1. T \in SUBSET V
      BY <1>2
    <2>2. closed(T)
      BY <1>2, <1>4
    <2> HIDE DEF closed
    <2>3. T \subseteq G
      BY <1>3, <2>1, <2>2
    <2> QED BY <2>3
  <1>5. \A v \in V : v \in G <=> (/\ Sources[v[2]] \cap v[1] = {}
                                  /\ \A s \in Sources[v[2]] : down(v, s) \in G)
    BY <1>2, <1>4
  <1>6. \A v \in V : g[v] = (v \in G)
    OBVIOUS
  <1>7. ASSUME NEW v \in V
        PROVE  (v \in G) = (/\ Sources[v[2]] \cap v[1] = {}
                            /\ \A s \in Sources[v[2]] : g[down(v, s)])
    <2>1. \A s \in Sources[v[2]] : g[down(v, s)] = (down(v, s) \in G)
      BY <1>1
    <2> HIDE DEF g
    <2>2. (v \in G) <=> (/\ Sources[v[2]] \cap v[1] = {}
                         /\ \A s \in Sources[v[2]] : g[down(v, s)])
      BY <1>5, <2>1, Zenon
    <2> DEFINE P == v \in G
               Q == /\ Sources[v[2]] \cap v[1] = {}
                    /\ \A s \in Sources[v[2]] : g[down(v, s)]
    <2>3. P <=> Q
      BY <2>2, Zenon
    <2>4. P \in BOOLEAN /\ Q \in BOOLEAN
      OBVIOUS
    <2> HIDE DEF P, Q
    <2>5. P = Q
      BY <2>3, <2>4
    <2> QED BY <2>5, Zenon DEF P, Q
  <1>8. g = [v \in V |-> /\ Sources[v[2]] \cap v[1] = {}
                         /\ \A s \in Sources[v[2]] : g[down(v, s)]]
    <2> DEFINE h == [v \in V |-> /\ Sources[v[2]] \cap v[1] = {}
                         /\ \A s \in Sources[v[2]] : g[down(v, s)]]
    <2> QED BY <1>7
  <1> HIDE DEF g
  <1>9. \E f : f = [v \in V |-> /\ Sources[v[2]] \cap v[1] = {}
                                /\ \A s \in Sources[v[2]] : f[down(v, s)]]
    BY <1>8, Zenon
  <1>10. \E f : f = [v \in Packages!Visit |-> /\ Sources[v[2]] \cap v[1] = {}
                                /\ \A s \in Sources[v[2]] : f[<<v[1] \cup {s}, s>>]]
    BY <1>9, Zenon DEF V, down
  <1> QED BY <1>10, Zenon DEF Packages!Resolves

LEMMA NodesDefined ==
    ASSUME LineageConstants
    PROVE  Packages!Nodes = [v \in Packages!Visit |->
               {v[2]} \cup UNION {Packages!Nodes[<<v[1] \cup {s}, s>>] : s \in Sources[v[2]]}]
  <1> DEFINE V == Packages!Visit
             down(v, s) == <<v[1] \cup {s}, s>>
             closed(T) == \A x \in T : \/ x[2] = x[1][2]
                                       \/ \E s \in Sources[x[1][2]] : <<down(x[1], s), x[2]>> \in T
             G == UNION {T \in SUBSET (V \X Observation) : closed(T)}
             g == [v \in V |-> {n \in Observation : <<v, n>> \in G}]
  <1>1. \A v \in V : v[2] \in Observation /\ \A s \in Sources[v[2]] : down(v, s) \in V
    BY DEF LineageConstants, Packages!Visit
  <1>2. G \subseteq V \X Observation /\ closed(G)
    <2>1. G \subseteq V \X Observation
      OBVIOUS
    <2>2. ASSUME NEW x \in G
          PROVE  \/ x[2] = x[1][2]
                 \/ \E s \in Sources[x[1][2]] : <<down(x[1], s), x[2]>> \in G
      <3>1. PICK T \in SUBSET (V \X Observation) : closed(T) /\ x \in T
        BY <2>2
      <3>2. T \subseteq G
        BY <3>1
      <3> HIDE DEF G
      <3> QED BY <3>1, <3>2
    <2> QED BY <2>1, <2>2
  <1>3. ASSUME NEW T \in SUBSET (V \X Observation), closed(T)
        PROVE  T \subseteq G
    BY <1>3
  <1> HIDE DEF V, G, down
  <1>4. ASSUME NEW v \in V, NEW n \in Observation,
               n = v[2] \/ \E s \in Sources[v[2]] : <<down(v, s), n>> \in G
        PROVE  <<v, n>> \in G
    <2> DEFINE T == G \cup {<<v, n>>}
    <2>1. T \in SUBSET (V \X Observation)
      BY <1>2
    <2>2. closed(T)
      BY <1>2, <1>4
    <2> HIDE DEF closed
    <2>3. T \subseteq G
      BY <1>3, <2>1, <2>2
    <2> QED BY <2>3
  <1>5. \A v \in V : \A n \in Observation :
            <<v, n>> \in G <=> n = v[2] \/ \E s \in Sources[v[2]] : <<down(v, s), n>> \in G
    <2>1. \A v \in V : \A n \in Observation :
            <<v, n>> \in G => n = v[2] \/ \E s \in Sources[v[2]] : <<down(v, s), n>> \in G
      <3> SUFFICES ASSUME NEW v \in V, NEW n \in Observation, <<v, n>> \in G
                   PROVE  n = v[2] \/ \E s \in Sources[v[2]] : <<down(v, s), n>> \in G
        OBVIOUS
      <3> DEFINE x == <<v, n>>
      <3>1. x[2] = x[1][2] \/ \E s \in Sources[x[1][2]] : <<down(x[1], s), x[2]>> \in G
        BY <1>2
      <3>2. x[1] = v /\ x[2] = n
        OBVIOUS
      <3> HIDE DEF x
      <3> QED BY <3>1, <3>2
    <2> QED BY <1>4, <2>1
  <1>6. \A v \in V : g[v] = {n \in Observation : <<v, n>> \in G}
    OBVIOUS
  <1>7. ASSUME NEW v \in V
        PROVE  g[v] = {v[2]} \cup UNION {g[down(v, s)] : s \in Sources[v[2]]}
    <2>1. \A s \in Sources[v[2]] : g[down(v, s)] = {n \in Observation : <<down(v, s), n>> \in G}
      BY <1>1
    <2>2. \A n \in Observation : n \in g[v] <=>
              n = v[2] \/ \E s \in Sources[v[2]] : <<down(v, s), n>> \in G
      BY <1>5
    <2>3. g[v] \subseteq Observation
      OBVIOUS
    <2> HIDE DEF g
    <2>4. UNION {g[down(v, s)] : s \in Sources[v[2]]} \subseteq Observation
      BY <2>1
    <2>5. \A n \in Observation : n \in UNION {g[down(v, s)] : s \in Sources[v[2]]}
              <=> \E s \in Sources[v[2]] : <<down(v, s), n>> \in G
      BY <2>1
    <2> QED BY <1>1, <2>2, <2>3, <2>4, <2>5
  <1>8. g = [v \in V |-> {v[2]} \cup UNION {g[down(v, s)] : s \in Sources[v[2]]}]
    BY <1>7
  <1> HIDE DEF g
  <1>9. \E f : f = [v \in V |-> {v[2]} \cup UNION {f[down(v, s)] : s \in Sources[v[2]]}]
    BY <1>8, Zenon
  <1>10. \E f : f = [v \in Packages!Visit |->
                         {v[2]} \cup UNION {f[<<v[1] \cup {s}, s>>] : s \in Sources[v[2]]}]
    BY <1>9, Zenon DEF V, down
  <1> QED BY <1>10, Zenon DEF Packages!Nodes

\* One step of the recursions.
LEMMA OneStepDown ==
    ASSUME LineageConstants, NEW path \in SUBSET Observation, NEW o \in Observation
    PROVE  /\ Packages!Resolves[<<path, o>>] =>
                 /\ Sources[o] \cap path = {}
                 /\ \A s \in Sources[o] : Packages!Resolves[<<path \cup {s}, s>>]
           /\ Packages!Nodes[<<path, o>>] =
                 {o} \cup UNION {Packages!Nodes[<<path \cup {s}, s>>] : s \in Sources[o]}
  <1> DEFINE v == <<path, o>>
             R == Packages!Resolves
             N == Packages!Nodes
  <1>1. v \in Packages!Visit /\ v[1] = path /\ v[2] = o
    BY DEF Packages!Visit
  <1>2. R = [w \in Packages!Visit |-> /\ Sources[w[2]] \cap w[1] = {}
                                      /\ \A s \in Sources[w[2]] : R[<<w[1] \cup {s}, s>>]]
    BY ResolvesDefined
  <1>3. N = [w \in Packages!Visit |->
               {w[2]} \cup UNION {N[<<w[1] \cup {s}, s>>] : s \in Sources[w[2]]}]
    BY NodesDefined
  <1> HIDE DEF R, N, v
  <1>4. R[v] = (/\ Sources[v[2]] \cap v[1] = {}
                /\ \A s \in Sources[v[2]] : R[<<v[1] \cup {s}, s>>])
    BY <1>1, <1>2
  <1>5. N[v] = {v[2]} \cup UNION {N[<<v[1] \cup {s}, s>>] : s \in Sources[v[2]]}
    BY <1>1, <1>3
  <1>6. R[v] => /\ Sources[o] \cap path = {}
                /\ \A s \in Sources[o] : R[<<path \cup {s}, s>>]
    BY <1>1, <1>4
  <1>7. N[v] = {o} \cup UNION {N[<<path \cup {s}, s>>] : s \in Sources[o]}
    BY <1>1, <1>5
  <1> QED BY <1>6, <1>7 DEF R, N, v

\* The nodes below o are closed under sources, and each is o or a source of
\* another one.
ClosedBelow(path, o) ==
    /\ \A x \in Packages!Nodes[<<path, o>>] : Sources[x] \subseteq Packages!Nodes[<<path, o>>]
    /\ \A x \in Packages!Nodes[<<path, o>>] :
          x = o \/ \E above \in Packages!Nodes[<<path, o>>] : x \in Sources[above]

LEMMA ClosedOneStep ==
    ASSUME LineageConstants, NEW path \in SUBSET Observation, NEW o \in Observation,
           \A s \in Sources[o] : ClosedBelow(path \cup {s}, s)
    PROVE  ClosedBelow(path, o)
  <1> DEFINE N == Packages!Nodes
  <1>1. N[<<path, o>>] = {o} \cup UNION {N[<<path \cup {s}, s>>] : s \in Sources[o]}
    BY OneStepDown
  <1>2. \A s \in Sources[o] : s \in Observation /\ path \cup {s} \in SUBSET Observation
    BY DEF LineageConstants
  <1>3. \A s \in Sources[o] : s \in N[<<path \cup {s}, s>>]
    BY <1>2, OneStepDown
  <1>4. \A s \in Sources[o] : \A x \in N[<<path \cup {s}, s>>] :
            /\ Sources[x] \subseteq N[<<path \cup {s}, s>>]
            /\ x = s \/ \E above \in N[<<path \cup {s}, s>>] : x \in Sources[above]
    BY DEF ClosedBelow
  <1> HIDE DEF N
  <1>5. \A s \in Sources[o] : N[<<path \cup {s}, s>>] \subseteq N[<<path, o>>]
    BY <1>1
  <1>6. \A x \in N[<<path, o>>] : x = o \/ \E s \in Sources[o] : x \in N[<<path \cup {s}, s>>]
    BY <1>1
  <1>7. ASSUME NEW x \in N[<<path, o>>]
        PROVE  Sources[x] \subseteq N[<<path, o>>]
    <2>1. CASE x = o
      BY <1>3, <1>5, <2>1
    <2>2. ASSUME NEW s \in Sources[o], x \in N[<<path \cup {s}, s>>]
          PROVE  Sources[x] \subseteq N[<<path, o>>]
      BY <1>4, <1>5, <2>2
    <2> QED BY <1>6, <2>1, <2>2
  <1>8. ASSUME NEW x \in N[<<path, o>>]
        PROVE  x = o \/ \E above \in N[<<path, o>>] : x \in Sources[above]
    <2>1. o \in N[<<path, o>>]
      BY <1>1
    <2>2. ASSUME NEW s \in Sources[o], x \in N[<<path \cup {s}, s>>]
          PROVE  \E above \in N[<<path, o>>] : x \in Sources[above]
      BY <1>4, <1>5, <2>1, <2>2
    <2> QED BY <1>6, <2>2
  <1> QED BY <1>7, <1>8 DEF ClosedBelow, N

\* What resolves is complete: the path grows with every step, so that a visit
\* with the longest path that fails would have none below that fails.
LEMMA ResolvedIsClosed ==
    ASSUME LineageConstants, NEW path0 \in SUBSET Observation, NEW o0 \in Observation,
           Packages!Resolves[<<path0, o0>>]
    PROVE  ClosedBelow(path0, o0)
  <1> DEFINE R == Packages!Resolves
             Bad == {v \in Packages!Visit : R[v] /\ ~ ClosedBelow(v[1], v[2])}
             left(v) == Cardinality(Observation \ v[1])
             sizes == {left(v) : v \in Bad}
  <1>1. SUFFICES ASSUME Bad # {} PROVE FALSE
    <2>1. <<path0, o0>> \in Packages!Visit /\ R[<<path0, o0>>]
      BY DEF Packages!Visit
    <2>2. Bad = {}
      BY <1>1
    <2> DEFINE v == <<path0, o0>>
    <2>3. v[1] = path0 /\ v[2] = o0 /\ v \in Packages!Visit /\ R[v]
      BY <2>1
    <2> HIDE DEF v, R
    <2>4. ClosedBelow(v[1], v[2])
      BY <2>2, <2>3
    <2> QED BY <2>3, <2>4
  <1>2. \A v \in Packages!Visit : left(v) \in Nat /\ IsFiniteSet(Observation \ v[1])
    <2>1. \A v \in Packages!Visit : IsFiniteSet(Observation \ v[1])
      BY FS_Subset DEF LineageConstants
    <2> QED BY <2>1, FS_CardinalityType
  <1>3. sizes \subseteq Nat /\ sizes # {}
    BY <1>1, <1>2
  <1> HIDE DEF sizes
  <1>4. PICK k \in sizes : \A n \in sizes : ~ (<<n, k>> \in OpToRel(<, Nat))
    BY <1>3, NatLessThanWellFounded, WFMin
  <1>5. \A n \in sizes : ~ (n < k)
    BY <1>3, <1>4 DEF OpToRel
  <1>6. PICK v \in Bad : k = left(v)
    BY DEF sizes
  <1>7. PICK path \in SUBSET Observation, o \in Observation : v = <<path, o>>
    BY DEF Packages!Visit
  <1>8. v[1] = path /\ v[2] = o
    BY <1>7
  <1>9. R[<<path, o>>] /\ ~ ClosedBelow(path, o)
    BY <1>7, <1>8
  <1>10. Sources[o] \cap path = {} /\ \A s \in Sources[o] : R[<<path \cup {s}, s>>]
    BY <1>9, OneStepDown
  <1>11. ASSUME NEW s \in Sources[o]
         PROVE  ClosedBelow(path \cup {s}, s)
    <2> DEFINE w == <<path \cup {s}, s>>
    <2>1. s \in Observation /\ s \notin path
      BY <1>10 DEF LineageConstants
    <2>2. w \in Packages!Visit /\ w[1] = path \cup {s} /\ w[2] = s /\ R[w]
      BY <1>10, <2>1 DEF Packages!Visit
    <2>3. Observation \ w[1] = (Observation \ path) \ {s} /\ s \in Observation \ path
      BY <2>1, <2>2
    <2>4. IsFiniteSet(Observation \ path) /\ Cardinality(Observation \ path) = k /\ k \in Nat
      BY <1>2, <1>3, <1>6, <1>8
    <2>5. left(w) = k - 1
      <3> DEFINE S == Observation \ path
      <3>1. IsFiniteSet(S) /\ s \in S /\ Cardinality(S) = k
        BY <2>3, <2>4
      <3> HIDE DEF S
      <3>2. Cardinality(S \ {s}) = k - 1
        BY <3>1, FS_RemoveElement
      <3>3. left(w) = Cardinality(S \ {s})
        BY <2>3 DEF S
      <3> QED BY <3>2, <3>3
    <2> HIDE DEF w, R, left
    <2>6. w \notin Bad
      <3>1. left(w) < k
        BY <2>4, <2>5
      <3>2. left(w) \notin sizes
        BY <1>5, <3>1
      <3> QED BY <3>2 DEF sizes
    <2>7. ClosedBelow(w[1], w[2])
      BY <2>2, <2>6
    <2> QED BY <2>2, <2>7
  <1> QED BY <1>9, <1>11, ClosedOneStep

\* The lineage that a package carries for a cost input is complete: it has every
\* observation that the basis of the input rests on, through any others, and
\* nothing else (_source_observation_lineage, _document_lineage).
THEOREM LineageIsComplete ==
    ASSUME LineageConstants, Packages!LineageResolves, NEW a, a.object.lineage = Packages!Lineage
    PROVE  Packages!LineageComplete(a)
  <1>1. SUFFICES ASSUME NEW c \in CostInput
                 PROVE  LET ids == Packages!InputLineage(c) IN
                        /\ Basis[c] \subseteq ids /\ \A o \in ids : Sources[o] \subseteq ids
                        /\ \A o \in ids : o \in Basis[c] \/ \E above \in ids : o \in Sources[above]
    BY DEF Packages!LineageComplete, Packages!Lineage
  <1> DEFINE N == Packages!Nodes
             ids == Packages!InputLineage(c)
  <1>2. \A o \in Basis[c] : o \in Observation /\ {o} \in SUBSET Observation
                            /\ Packages!Resolves[<<{o}, o>>]
    BY DEF LineageConstants, Packages!LineageResolves
  <1>3. \A o \in Basis[c] : ClosedBelow({o}, o)
    BY <1>2, ResolvedIsClosed
  <1>4. ASSUME NEW o \in Basis[c]
        PROVE  o \in N[<<{o}, o>>]
    <2>1. o \in Observation /\ {o} \in SUBSET Observation
      BY <1>2
    <2>2. N[<<{o}, o>>] = {o} \cup UNION {N[<<{o} \cup {s}, s>>] : s \in Sources[o]}
      BY <2>1, OneStepDown
    <2> QED BY <2>2
  <1>5. \A o \in Basis[c] : \A x \in N[<<{o}, o>>] :
            /\ Sources[x] \subseteq N[<<{o}, o>>]
            /\ x = o \/ \E above \in N[<<{o}, o>>] : x \in Sources[above]
    BY <1>3 DEF ClosedBelow
  <1>6. ids = UNION {N[<<{o}, o>>] : o \in Basis[c]}
    BY DEF Packages!InputLineage
  <1> HIDE DEF ids, N
  <1>7. Basis[c] \subseteq ids /\ \A o \in Basis[c] : N[<<{o}, o>>] \subseteq ids
    BY <1>4, <1>6
  <1>8. ASSUME NEW x \in ids
        PROVE  Sources[x] \subseteq ids
    <2>1. PICK o \in Basis[c] : x \in N[<<{o}, o>>]
      BY <1>6
    <2> QED BY <1>5, <1>7, <2>1
  <1>9. ASSUME NEW x \in ids
        PROVE  x \in Basis[c] \/ \E above \in ids : x \in Sources[above]
    <2>1. PICK o \in Basis[c] : x \in N[<<{o}, o>>]
      BY <1>6
    <2> QED BY <1>5, <1>7, <2>1
  <1> QED BY <1>7, <1>8, <1>9 DEF ids

FixedRow == [docset : Nat, versions : Version]
DecisionStatus == {"PENDING", "DECIDED", "SUPERSEDED"}
SeenRow == [tasks : SUBSET (Task \X DecisionStatus), records : SUBSET Packages!RecordRow,
            workflow : SUBSET Packages!TransitionRow]
ReleaseRow == [snapshot : Nat, allowed : BOOLEAN, state : Packages!ApprovalState, seen : SeenRow]

\* A sequence that goes on where another one ends.
Continues(s, longer) ==
    Len(s) <= Len(longer) /\ \A i \in 1 .. Len(s) : longer[i] = s[i]

\* What is stamped is stamped with a position of the chain, and a task is
\* decided after it was made.
Stamped(n, rows, decisions, moves) ==
    /\ \A t \in Task : rows[t] # NoRow => rows[t].created <= rows[t].updated /\ rows[t].updated <= n
    /\ \A d \in decisions : /\ rows[d.task] # NoRow /\ rows[d.task].created <= d.at
                            /\ d.at <= n
    /\ \A m \in moves : m.at <= n

\* A decision that saw the chain up to i saw the tasks of then, unless one moved
\* since, and the records and moves of then.
Saw(seen, i, rows, decisions, moves) ==
    /\ (\A t \in Task : rows[t] # NoRow /\ rows[t].created <= i => rows[t].updated <= i)
          => seen.tasks = {<<t, rows[t].status>> : t \in {u \in Task : rows[u] # NoRow
                                                                        /\ rows[u].created <= i}}
    /\ seen.records = {d \in decisions : d.at <= i}
    /\ seen.workflow = {m \in moves : m.at <= i}

\* The one event of a release, and what the release saw.
ReleaseStands(r, row, n, chain, rows, decisions, moves) ==
    /\ row.snapshot \in 1 .. n
    /\ \E i \in 1 .. Len(chain) :
          /\ chain[i].type = "released" /\ chain[i].decision = r
          /\ \A j \in 1 .. Len(chain) :
                chain[j].type = "released" /\ chain[j].decision = r => j = i
          /\ Saw(row.seen, i, rows, decisions, moves)

\* An artifact names a package that says what its release saw.
ArtifactStands(a, packages, calculations, decisions, chain) ==
    /\ a.object \in packages /\ a.object.key = a.key
    /\ a.object.snapshot = a.snapshot /\ a.object.release = a.release
    /\ a.snapshot \in 1 .. Len(calculations)
    /\ a.template = calculations[a.snapshot].versions /\ a.object.versions = a.template
    /\ a.release \in 1 .. Len(decisions) /\ decisions[a.release].allowed
    /\ decisions[a.release].snapshot = a.snapshot
    /\ a.object.approvals = [tasks |-> decisions[a.release].seen.tasks,
                             records |-> decisions[a.release].seen.records]
    /\ a.object.workflow = decisions[a.release].seen.workflow
    /\ a.object.chain \in Seq(Packages!Event) /\ Len(a.object.chain) > 0
    /\ Continues(a.object.chain, chain)
    /\ a.object.chain[Len(a.object.chain)].decision = a.release
    /\ Packages!LineageResolves /\ a.object.lineage = Packages!Lineage

ReleasesStand(decided, n, chain, rows, decisions, moves) ==
    /\ \A r \in 1 .. Len(decided) :
          ReleaseStands(r, decided[r], n, chain, rows, decisions, moves)
    /\ \A i \in 1 .. Len(chain) :
          chain[i].type = "released" => chain[i].decision \in 1 .. Len(decided)

ArtifactsStand(packed, packages, calculations, decisions, chain) ==
    /\ \A a \in packed : ArtifactStands(a, packages, calculations, decisions, chain)
    /\ \A a, b \in packed : a.snapshot = b.snapshot /\ a.release = b.release => a = b

ExportTyped ==
    /\ Packages!ExportTypeOK /\ docset \in Nat
    /\ fixed \in Seq(FixedRow) /\ fixed # <<>> /\ releases \in Seq(ReleaseRow)

\* The inductive invariant.
ExportInv ==
    /\ ExportTyped
    /\ Stamped(Len(events), exportTasks, exportRecords, transitions)
    /\ ReleasesStand(releases, Len(fixed), events, exportTasks, exportRecords, transitions)
    /\ ArtifactsStand(artifacts, objects, fixed, releases, events)

LEMMA ExportStages ==
    /\ Packages!Stages \subseteq Packages!ApprovalState
    /\ Packages!Released \subseteq Packages!ApprovalState
    /\ "EXPERT_REVIEW" \in Packages!ApprovalState /\ "BLOCKED" \in Packages!ApprovalState
  BY DEF Packages!Stages, Packages!ApprovalState, Packages!NormalTransitions, Packages!Released

LEMMA ExportInitInv ==
    ASSUME Packages!ExportInit
    PROVE  ExportInv
  <1>1. /\ stage = "EXPERT_REVIEW" /\ exportTasks = [t \in Task |-> NoRow] /\ exportRecords = {}
        /\ transitions = {} /\ events = <<>> /\ bound \in Version
        /\ fixed = <<[docset |-> 1, versions |-> bound]>> /\ releases = <<>>
        /\ artifacts = {} /\ signing \in SigningKey /\ docset = 1
    BY DEF Packages!ExportInit
  <1>2. Packages!ExportTypeOK
    BY <1>1, ExportStages DEF Packages!ExportTypeOK
  <1>3. ExportTyped
    BY <1>1, <1>2 DEF ExportTyped, FixedRow
  <1>4. Len(events) = 0 /\ Len(releases) = 0
    BY <1>1
  <1> QED BY <1>1, <1>3, <1>4 DEF ExportInv, Stamped, ReleasesStand, ArtifactsStand

\* The fields of the rows of the exports.
LEMMA ExportRows ==
    ASSUME ExportTyped
    PROVE  /\ Len(events) \in Nat /\ DOMAIN events = 1 .. Len(events)
           /\ Len(releases) \in Nat /\ DOMAIN releases = 1 .. Len(releases)
           /\ Len(fixed) \in Nat /\ DOMAIN fixed = 1 .. Len(fixed) /\ Len(fixed) > 0
           /\ events \in Seq(Packages!Event) /\ releases \in Seq(ReleaseRow)
           /\ fixed \in Seq(FixedRow)
           /\ \A t \in Task : exportTasks[t] # NoRow => exportTasks[t] \in Packages!TaskRow
           /\ \A d \in exportRecords : d \in Packages!RecordRow
           /\ \A m \in transitions : m \in Packages!TransitionRow
  <1>1. events \in Seq(Packages!Event) /\ releases \in Seq(ReleaseRow) /\ fixed \in Seq(FixedRow)
        /\ fixed # <<>>
    BY DEF ExportTyped, Packages!ExportTypeOK
  <1>2. Len(fixed) > 0
    BY <1>1, HasLast
  <1> QED BY <1>1, <1>2, LenProperties DEF ExportTyped, Packages!ExportTypeOK

\* The same of the next state.
LEMMA ExportRowsNext ==
    ASSUME ExportTyped'
    PROVE  /\ Len(events') \in Nat /\ Len(releases') \in Nat /\ Len(fixed') \in Nat
           /\ \A t \in Task : exportTasks'[t] # NoRow => exportTasks'[t] \in Packages!TaskRow
           /\ \A d \in exportRecords' : d \in Packages!RecordRow
           /\ \A m \in transitions' : m \in Packages!TransitionRow
  <1>1. /\ events' \in Seq(Packages!Event) /\ releases' \in Seq(ReleaseRow)
        /\ fixed' \in Seq(FixedRow)
        /\ exportTasks' \in [Task -> Packages!TaskRow \cup {NoRow}]
        /\ exportRecords' \subseteq Packages!RecordRow
        /\ transitions' \subseteq Packages!TransitionRow
    BY DEF ExportTyped, Packages!ExportTypeOK
  <1>2. Len(events') \in Nat /\ Len(releases') \in Nat /\ Len(fixed') \in Nat
    BY <1>1, LenProperties
  <1> QED BY <1>1, <1>2

\* Time passes: what changes is stamped after position n.
Advances(n, rows, newRows, decisions, newDecisions, moves, newMoves) ==
    /\ \A t \in Task :
          \/ newRows[t] = rows[t]
          \/ /\ newRows[t] # NoRow /\ newRows[t].updated > n
             /\ IF rows[t] = NoRow THEN newRows[t].created > n
                ELSE newRows[t].created = rows[t].created
    /\ decisions \subseteq newDecisions /\ \A d \in newDecisions \ decisions : d.at > n
    /\ moves \subseteq newMoves /\ \A m \in newMoves \ moves : m.at > n

LEMMA SawStays ==
    ASSUME NEW n \in Nat, NEW rows, NEW newRows, NEW decisions, NEW newDecisions,
           NEW moves, NEW newMoves,
           Advances(n, rows, newRows, decisions, newDecisions, moves, newMoves),
           \A t \in Task : newRows[t] # NoRow => newRows[t] \in Packages!TaskRow,
           \A d \in newDecisions : d \in Packages!RecordRow,
           \A m \in newMoves : m \in Packages!TransitionRow,
           NEW seen, NEW i \in 1 .. n, Saw(seen, i, rows, decisions, moves)
    PROVE  Saw(seen, i, newRows, newDecisions, newMoves)
  <1> DEFINE before == {u \in Task : rows[u] # NoRow /\ rows[u].created <= i}
             now == {u \in Task : newRows[u] # NoRow /\ newRows[u].created <= i}
  <1>0. \A t \in Task : newRows[t] # NoRow => newRows[t].created \in Nat /\ newRows[t].updated \in Nat
    BY DEF Packages!TaskRow
  <1>1. \A t \in Task : t \in now <=> t \in before
    <2> SUFFICES ASSUME NEW t \in Task PROVE t \in now <=> t \in before
      OBVIOUS
    <2>1. CASE newRows[t] = rows[t]
      BY <2>1
    <2>2. CASE newRows[t] # rows[t]
      BY <1>0, <2>2 DEF Advances
    <2> QED BY <2>1, <2>2
  <1>2. ASSUME \A t \in Task : newRows[t] # NoRow /\ newRows[t].created <= i => newRows[t].updated <= i
        PROVE  seen.tasks = {<<t, newRows[t].status>> : t \in now}
    <2>1. \A t \in now : newRows[t] = rows[t]
      <3> SUFFICES ASSUME NEW t \in now, newRows[t] # rows[t] PROVE FALSE
        OBVIOUS
      <3>1. newRows[t].updated > n /\ newRows[t].updated <= i
        BY <1>2 DEF Advances
      <3> QED BY <1>0, <3>1
    <2>2. \A t \in Task : rows[t] # NoRow /\ rows[t].created <= i => rows[t].updated <= i
      <3> SUFFICES ASSUME NEW t \in Task, rows[t] # NoRow, rows[t].created <= i
                   PROVE  rows[t].updated <= i
        OBVIOUS
      <3>1. t \in now
        BY <1>1
      <3>2. newRows[t] = rows[t]
        BY <2>1, <3>1
      <3> QED BY <1>2, <3>2
    <2>3. seen.tasks = {<<t, rows[t].status>> : t \in before}
      BY <2>2 DEF Saw
    <2>4. now = before
      BY <1>1
    <2> HIDE DEF now, before
    <2> QED BY <2>1, <2>3, <2>4
  <1>3. seen.records = {d \in newDecisions : d.at <= i}
    <2>1. \A d \in newDecisions : d.at \in Nat
      BY DEF Packages!RecordRow
    <2>2. seen.records = {d \in decisions : d.at <= i}
      BY DEF Saw
    <2>3. \A d \in newDecisions : d.at <= i => d \in decisions
      <3> SUFFICES ASSUME NEW d \in newDecisions, d.at <= i, d \notin decisions PROVE FALSE
        OBVIOUS
      <3>1. d.at > n
        BY DEF Advances
      <3> QED BY <2>1, <3>1
    <2> QED BY <2>2, <2>3 DEF Advances
  <1>4. seen.workflow = {m \in newMoves : m.at <= i}
    <2>1. \A m \in newMoves : m.at \in Nat
      BY DEF Packages!TransitionRow
    <2>2. seen.workflow = {m \in moves : m.at <= i}
      BY DEF Saw
    <2>3. \A m \in newMoves : m.at <= i => m \in moves
      <3> SUFFICES ASSUME NEW m \in newMoves, m.at <= i, m \notin moves PROVE FALSE
        OBVIOUS
      <3>1. m.at > n
        BY DEF Advances
      <3> QED BY <2>1, <3>1
    <2> QED BY <2>2, <2>3 DEF Advances
  <1> QED BY <1>2, <1>3, <1>4 DEF Saw

\* A release stands while time passes and others are released.
LEMMA ReleaseStays ==
    ASSUME ExportInv, ExportTyped', Continues(events, events'), Len(fixed) <= Len(fixed'),
           Advances(Len(events), exportTasks, exportTasks', exportRecords, exportRecords',
                    transitions, transitions'),
           NEW r \in 1 .. Len(releases),
           \A j \in 1 .. Len(events') : j > Len(events) /\ events'[j].type = "released"
                                           => events'[j].decision # r
    PROVE  ReleaseStands(r, releases[r], Len(fixed'), events', exportTasks', exportRecords',
                         transitions')
  <1>1. /\ Len(events) \in Nat /\ Len(fixed) \in Nat
    BY ExportRows DEF ExportInv
  <1>2. /\ Len(events') \in Nat /\ Len(fixed') \in Nat
        /\ \A t \in Task : exportTasks'[t] # NoRow => exportTasks'[t] \in Packages!TaskRow
        /\ \A d \in exportRecords' : d \in Packages!RecordRow
        /\ \A m \in transitions' : m \in Packages!TransitionRow
    BY ExportRowsNext
  <1>3. ReleaseStands(r, releases[r], Len(fixed), events, exportTasks, exportRecords, transitions)
    BY DEF ExportInv, ReleasesStand
  <1>4. PICK i \in 1 .. Len(events) :
          /\ events[i].type = "released" /\ events[i].decision = r
          /\ \A j \in 1 .. Len(events) :
                events[j].type = "released" /\ events[j].decision = r => j = i
          /\ Saw(releases[r].seen, i, exportTasks, exportRecords, transitions)
    BY <1>3 DEF ReleaseStands
  <1>5. i \in 1 .. Len(events') /\ events'[i] = events[i]
    BY <1>1, <1>2 DEF Continues
  <1>6. \A j \in 1 .. Len(events') : events'[j].type = "released" /\ events'[j].decision = r => j = i
    <2> SUFFICES ASSUME NEW j \in 1 .. Len(events'), events'[j].type = "released",
                        events'[j].decision = r
                 PROVE  j = i
      OBVIOUS
    <2>1. j \in 1 .. Len(events)
      BY <1>1, <1>2
    <2> QED BY <1>4, <2>1 DEF Continues
  <1>7. Saw(releases[r].seen, i, exportTasks', exportRecords', transitions')
    BY <1>1, <1>2, <1>4, SawStays
  <1>8. releases[r].snapshot \in 1 .. Len(fixed')
    BY <1>1, <1>2, <1>3 DEF ReleaseStands
  <1> QED BY <1>4, <1>5, <1>6, <1>7, <1>8 DEF ReleaseStands

\* An artifact stands while calculations, releases and events are added.
LEMMA ArtifactStays ==
    ASSUME ExportInv, ExportTyped', Continues(events, events'), Continues(fixed, fixed'),
           Continues(releases, releases'), objects \subseteq objects', NEW a \in artifacts
    PROVE  ArtifactStands(a, objects', fixed', releases', events')
  <1>1. ArtifactStands(a, objects, fixed, releases, events)
    BY DEF ExportInv, ArtifactsStand
  <1>2. /\ Len(events) \in Nat /\ Len(fixed) \in Nat /\ Len(releases) \in Nat
    BY ExportRows DEF ExportInv
  <1>3. /\ Len(events') \in Nat /\ Len(fixed') \in Nat /\ Len(releases') \in Nat
    BY ExportRowsNext
  <1>4. a.snapshot \in 1 .. Len(fixed') /\ fixed'[a.snapshot] = fixed[a.snapshot]
    BY <1>1, <1>2, <1>3 DEF ArtifactStands, Continues
  <1>5. a.release \in 1 .. Len(releases') /\ releases'[a.release] = releases[a.release]
    BY <1>1, <1>2, <1>3 DEF ArtifactStands, Continues
  <1>6. Continues(a.object.chain, events')
    <2>1. a.object.chain \in Seq(Packages!Event) /\ Continues(a.object.chain, events)
      BY <1>1 DEF ArtifactStands
    <2>2. Len(a.object.chain) \in Nat
      BY <2>1, HasLast
    <2>3. Len(a.object.chain) <= Len(events)
      BY <2>1 DEF Continues
    <2>4. Len(events) <= Len(events')
      BY DEF Continues
    <2>5. \A i \in 1 .. Len(a.object.chain) : i \in 1 .. Len(events)
      BY <1>2, <2>2, <2>3
    <2>6. \A i \in 1 .. Len(a.object.chain) : a.object.chain[i] = events'[i]
      BY <2>1, <2>5 DEF Continues
    <2> QED BY <1>2, <1>3, <2>2, <2>3, <2>4, <2>6 DEF Continues
  <1>7. a.object \in objects'
    BY <1>1 DEF ArtifactStands
  <1> QED BY <1>1, <1>4, <1>5, <1>6, <1>7 DEF ArtifactStands

\* A step that releases nothing and packs nothing.
LEMMA NothingReleased ==
    ASSUME ExportInv, ExportTyped', Continues(events, events'), Continues(fixed, fixed'),
           Advances(Len(events), exportTasks, exportTasks', exportRecords, exportRecords',
                    transitions, transitions'),
           Stamped(Len(events'), exportTasks', exportRecords', transitions'),
           \A j \in 1 .. Len(events') : j > Len(events) => events'[j].type # "released",
           releases' = releases, artifacts' = artifacts, objects \subseteq objects'
    PROVE  ExportInv'
  <1>1. /\ Len(events) \in Nat /\ Len(fixed) \in Nat /\ Len(releases) \in Nat
    BY ExportRows DEF ExportInv
  <1>2. Len(events') \in Nat
    BY ExportRowsNext
  <1>3. Len(fixed) <= Len(fixed') /\ Continues(releases, releases')
    BY <1>1 DEF Continues
  <1>4. ASSUME NEW r \in 1 .. Len(releases)
        PROVE  ReleaseStands(r, releases'[r], Len(fixed'), events', exportTasks', exportRecords',
                             transitions')
    BY <1>3, ReleaseStays
  <1>5. \A i \in 1 .. Len(events') :
            events'[i].type = "released" => events'[i].decision \in 1 .. Len(releases)
    <2> SUFFICES ASSUME NEW i \in 1 .. Len(events'), events'[i].type = "released"
                 PROVE  events'[i].decision \in 1 .. Len(releases)
      OBVIOUS
    <2>1. i \in 1 .. Len(events)
      BY <1>1, <1>2
    <2>2. events'[i] = events[i]
      BY <2>1 DEF Continues
    <2> QED BY <2>1, <2>2 DEF ExportInv, ReleasesStand
  <1>6. ReleasesStand(releases', Len(fixed'), events', exportTasks', exportRecords', transitions')
    BY <1>4, <1>5 DEF ReleasesStand
  <1>7. \A a \in artifacts : ArtifactStands(a, objects', fixed', releases', events')
    BY <1>3, ArtifactStays
  <1>8. ArtifactsStand(artifacts', objects', fixed', releases', events')
    BY <1>7 DEF ArtifactsStand, ExportInv
  <1> QED BY <1>6, <1>8 DEF ExportInv

\* An event that is no release is appended to the chain.
LEMMA Recorded ==
    ASSUME ExportTyped, NEW type \in {"decided", "planned", "moved", "calculated", "bound",
                                      "uploaded", "exported"},
           events' = Append(events, [type |-> type, decision |-> 0])
    PROVE  /\ events' \in Seq(Packages!Event) /\ Len(events') = Len(events) + 1
           /\ Continues(events, events')
           /\ \A j \in 1 .. Len(events') : j > Len(events) => events'[j].type # "released"
  <1> DEFINE row == [type |-> type, decision |-> 0]
  <1>1. row \in Packages!Event /\ row.type # "released"
    BY DEF Packages!Event
  <1>2. events' = Append(events, row)
    OBVIOUS
  <1>3. events \in Seq(Packages!Event) /\ Len(events) \in Nat
    BY ExportRows
  <1> HIDE DEF row
  <1>4. /\ events' \in Seq(Packages!Event) /\ Len(events') = Len(events) + 1
        /\ events'[Len(events) + 1] = row /\ \A i \in 1 .. Len(events) : events'[i] = events[i]
    BY <1>1, <1>2, <1>3, Longer
  <1>5. Continues(events, events')
    BY <1>3, <1>4 DEF Continues
  <1>6. \A j \in 1 .. Len(events') : j > Len(events) => j = Len(events) + 1
    BY <1>3, <1>4
  <1> QED BY <1>1, <1>4, <1>5, <1>6

\* What is stamped stays stamped when the chain grows.
LEMMA StampedStays ==
    ASSUME ExportInv, NEW n \in Nat, Len(events) <= n
    PROVE  Stamped(n, exportTasks, exportRecords, transitions)
  <1>1. /\ Len(events) \in Nat
        /\ \A t \in Task : exportTasks[t] # NoRow => exportTasks[t] \in Packages!TaskRow
        /\ \A d \in exportRecords : d \in Packages!RecordRow
        /\ \A m \in transitions : m \in Packages!TransitionRow
    BY ExportRows DEF ExportInv
  <1>2. Stamped(Len(events), exportTasks, exportRecords, transitions)
    BY DEF ExportInv
  <1>3. \A t \in Task : exportTasks[t] # NoRow => exportTasks[t].updated \in Nat
    BY <1>1 DEF Packages!TaskRow
  <1>4. /\ \A d \in exportRecords : d.at \in Nat
        /\ \A m \in transitions : m.at \in Nat
    BY <1>1 DEF Packages!RecordRow, Packages!TransitionRow
  <1>5. \A t \in Task : exportTasks[t] # NoRow => exportTasks[t].updated <= n
    BY <1>1, <1>2, <1>3 DEF Stamped
  <1>6. \A d \in exportRecords : d.at <= n
    BY <1>1, <1>2, <1>4 DEF Stamped
  <1>7. \A m \in transitions : m.at <= n
    BY <1>1, <1>2, <1>4 DEF Stamped
  <1> QED BY <1>2, <1>5, <1>6, <1>7 DEF Stamped

\* The tasks of the exports are a function, and a row of them is of the past.
LEMMA TaskOfThePast ==
    ASSUME ExportInv, NEW t \in Task, exportTasks[t] # NoRow
    PROVE  /\ exportTasks[t] \in Packages!TaskRow
           /\ exportTasks[t].created <= exportTasks[t].updated
           /\ exportTasks[t].updated <= Len(events) /\ exportTasks[t].created <= Len(events)
           /\ exportTasks[t].created \in Nat /\ exportTasks[t].updated \in Nat
  <1>1. exportTasks[t] \in Packages!TaskRow /\ Len(events) \in Nat
    BY ExportRows DEF ExportInv
  <1>2. exportTasks[t].created \in Nat /\ exportTasks[t].updated \in Nat
    BY <1>1 DEF Packages!TaskRow
  <1>3. exportTasks[t].created <= exportTasks[t].updated /\ exportTasks[t].updated <= Len(events)
    BY DEF ExportInv, Stamped
  <1> QED BY <1>1, <1>2, <1>3

LEMMA PlanTaskInv ==
    ASSUME ExportConstants, ExportInv, NEW t \in Task, Packages!PlanTask(t)
    PROVE  ExportInv'
  <1> DEFINE now == Len(events) + 1
             row == [status |-> "PENDING", created |-> now, updated |-> now]
  <1>1. /\ exportTasks[t] = NoRow /\ exportTasks' = [exportTasks EXCEPT ![t] = row]
        /\ now <= MaxEvents /\ events' = Append(events, [type |-> "planned", decision |-> 0])
        /\ UNCHANGED <<stage, exportRecords, transitions, fixed, releases, bound, objects,
                       artifacts, signing, docset>>
    BY DEF Packages!PlanTask, Packages!Record, Packages!Now, Packages!calculated,
           Packages!packed, Packages!setOfDocuments
  <1>2. ExportTyped /\ Len(events) \in Nat
    BY ExportRows DEF ExportInv
  <1>3. /\ events' \in Seq(Packages!Event) /\ Len(events') = now /\ Continues(events, events')
        /\ \A j \in 1 .. Len(events') : j > Len(events) => events'[j].type # "released"
    BY <1>1, <1>2, Recorded
  <1>4. row \in Packages!TaskRow /\ row # NoRow /\ row.created = now /\ row.updated = now
    BY <1>1, <1>2 DEF ExportConstants, Packages!TaskRow
  <1> HIDE DEF row
  <1>5. exportTasks \in [Task -> Packages!TaskRow \cup {NoRow}]
    BY <1>2 DEF ExportTyped, Packages!ExportTypeOK
  <1>6. /\ exportTasks' \in [Task -> Packages!TaskRow \cup {NoRow}]
        /\ \A u \in Task : exportTasks'[u] = IF u = t THEN row ELSE exportTasks[u]
    BY <1>1, <1>4, <1>5
  <1>7. ExportTyped'
    BY <1>1, <1>2, <1>3, <1>6 DEF ExportTyped, Packages!ExportTypeOK
  <1>8. Advances(Len(events), exportTasks, exportTasks', exportRecords, exportRecords',
                 transitions, transitions')
    BY <1>1, <1>2, <1>4, <1>6 DEF Advances
  <1>9. Stamped(now, exportTasks, exportRecords, transitions)
    BY <1>2, StampedStays
  <1>10. Stamped(now, exportTasks', exportRecords', transitions')
    <2>1. \A u \in Task : exportTasks'[u] # NoRow =>
              exportTasks'[u].created <= exportTasks'[u].updated /\ exportTasks'[u].updated <= now
      BY <1>2, <1>4, <1>6, <1>9 DEF Stamped
    <2>2. \A d \in exportRecords : /\ exportTasks'[d.task] # NoRow
                                   /\ exportTasks'[d.task].created <= d.at /\ d.at <= now
      <3> SUFFICES ASSUME NEW d \in exportRecords
                   PROVE  /\ exportTasks'[d.task] # NoRow
                          /\ exportTasks'[d.task].created <= d.at /\ d.at <= now
        OBVIOUS
      <3>1. exportTasks[d.task] # NoRow /\ exportTasks[d.task].created <= d.at /\ d.at <= now
        BY <1>9 DEF Stamped
      <3>2. d.task \in Task
        BY <1>2, ExportRows DEF Packages!RecordRow
      <3> QED BY <1>1, <1>6, <3>1, <3>2
    <2> QED BY <1>1, <1>9, <2>1, <2>2 DEF Stamped
  <1>11. Continues(fixed, fixed') /\ objects \subseteq objects'
    BY <1>1, <1>2, ExportRows DEF Continues
  <1> QED BY <1>1, <1>3, <1>7, <1>8, <1>10, <1>11, NothingReleased

LEMMA DecideTaskInv ==
    ASSUME ExportConstants, ExportInv, NEW t \in Task, Packages!DecideTask(t)
    PROVE  ExportInv'
  <1> DEFINE now == Len(events) + 1
             row == [exportTasks[t] EXCEPT !.status = "DECIDED", !.updated = now]
             decision0 == [task |-> t, at |-> now]
  <1>1. /\ exportTasks[t] # NoRow /\ exportTasks' = [exportTasks EXCEPT ![t] = row]
        /\ exportRecords' = exportRecords \cup {decision0}
        /\ now <= MaxEvents /\ events' = Append(events, [type |-> "decided", decision |-> 0])
        /\ UNCHANGED <<stage, transitions, fixed, releases, bound, objects, artifacts, signing,
                       docset>>
    <2>1. exportTasks' = [exportTasks EXCEPT ![t].status = "DECIDED", ![t].updated = now]
      BY DEF Packages!DecideTask, Packages!Now
    <2>2. exportTasks' = [exportTasks EXCEPT ![t] = row]
      BY <2>1, ExportRows DEF ExportInv, ExportTyped, Packages!ExportTypeOK
    <2> QED BY <2>2 DEF Packages!DecideTask, Packages!Record, Packages!Now, Packages!calculated,
           Packages!packed, Packages!setOfDocuments
  <1>2. ExportTyped /\ Len(events) \in Nat
    BY ExportRows DEF ExportInv
  <1>3. /\ events' \in Seq(Packages!Event) /\ Len(events') = now /\ Continues(events, events')
        /\ \A j \in 1 .. Len(events') : j > Len(events) => events'[j].type # "released"
    BY <1>1, <1>2, Recorded
  <1>4. /\ exportTasks[t] \in Packages!TaskRow /\ exportTasks[t].created <= Len(events)
        /\ exportTasks[t].created \in Nat
    BY <1>1, TaskOfThePast
  <1>5. row \in Packages!TaskRow /\ row # NoRow /\ row.created = exportTasks[t].created
        /\ row.updated = now
    <2>1. row \in Packages!TaskRow /\ row.created = exportTasks[t].created /\ row.updated = now
      <3> DEFINE old == exportTasks[t]
      <3>1. old \in Packages!TaskRow /\ now \in 1 .. MaxEvents
        BY <1>1, <1>2, <1>4 DEF ExportConstants
      <3> HIDE DEF old, now
      <3>2. row = [old EXCEPT !.status = "DECIDED", !.updated = now]
        BY DEF old
      <3> HIDE DEF row
      <3>3. row \in Packages!TaskRow /\ row.created = old.created /\ row.updated = now
        BY <3>1, <3>2 DEF Packages!TaskRow
      <3> QED BY <3>3 DEF old
    <2> QED BY <2>1 DEF ExportConstants
  <1>6. decision0 \in Packages!RecordRow /\ decision0.task = t /\ decision0.at = now
    BY <1>1, <1>2 DEF ExportConstants, Packages!RecordRow
  <1> HIDE DEF row, decision0
  <1>7. exportTasks \in [Task -> Packages!TaskRow \cup {NoRow}]
    BY <1>2 DEF ExportTyped, Packages!ExportTypeOK
  <1>8. /\ exportTasks' \in [Task -> Packages!TaskRow \cup {NoRow}]
        /\ \A u \in Task : exportTasks'[u] = IF u = t THEN row ELSE exportTasks[u]
    BY <1>1, <1>5, <1>7
  <1>9. ExportTyped'
    BY <1>1, <1>2, <1>3, <1>6, <1>8 DEF ExportTyped, Packages!ExportTypeOK
  <1>10. Advances(Len(events), exportTasks, exportTasks', exportRecords, exportRecords',
                 transitions, transitions')
    BY <1>1, <1>2, <1>5, <1>6, <1>8 DEF Advances
  <1>11. Stamped(now, exportTasks, exportRecords, transitions)
    BY <1>2, StampedStays
  <1>12. Stamped(now, exportTasks', exportRecords', transitions')
    <2>1. \A u \in Task : exportTasks'[u] # NoRow =>
              exportTasks'[u].created <= exportTasks'[u].updated /\ exportTasks'[u].updated <= now
      BY <1>2, <1>4, <1>5, <1>8, <1>11 DEF Stamped
    <2>2. ASSUME NEW d \in exportRecords'
          PROVE  /\ exportTasks'[d.task] # NoRow
                 /\ exportTasks'[d.task].created <= d.at /\ d.at <= now
      <3>1. CASE d = decision0
        BY <1>2, <1>4, <1>5, <1>6, <1>8, <3>1
      <3>2. CASE d \in exportRecords
        <4>1. exportTasks[d.task] # NoRow /\ exportTasks[d.task].created <= d.at /\ d.at <= now
          BY <1>11, <3>2 DEF Stamped
        <4>2. d.task \in Task
          BY <1>2, <3>2, ExportRows DEF Packages!RecordRow
        <4> QED BY <1>5, <1>8, <4>1, <4>2
      <3> QED BY <1>1, <3>1, <3>2
    <2> QED BY <1>1, <1>11, <2>1, <2>2 DEF Stamped
  <1>13. Continues(fixed, fixed') /\ objects \subseteq objects'
    BY <1>1, <1>2, ExportRows DEF Continues
  <1> QED BY <1>1, <1>3, <1>9, <1>10, <1>12, <1>13, NothingReleased

\* A move of the project to another state.
LEMMA Moved ==
    ASSUME ExportConstants, ExportInv, NEW n \in 1 .. MaxEvents, Len(events) < n,
           NEW to \in Packages!ApprovalState,
           UNCHANGED <<exportTasks, exportRecords>>,
           transitions' = transitions \cup {[to |-> to, at |-> Len(events) + 1]}
    PROVE  /\ transitions' \subseteq Packages!TransitionRow
           /\ Advances(Len(events), exportTasks, exportTasks', exportRecords, exportRecords',
                       transitions, transitions')
           /\ Stamped(n, exportTasks', exportRecords', transitions')
  <1> DEFINE move == [to |-> to, at |-> Len(events) + 1]
  <1>1. ExportTyped /\ Len(events) \in Nat /\ n \in Nat
    BY ExportRows DEF ExportInv, ExportConstants
  <1>2. move \in Packages!TransitionRow /\ move.at = Len(events) + 1
    BY <1>1 DEF Packages!TransitionRow, ExportConstants
  <1>3. transitions' = transitions \cup {move}
    OBVIOUS
  <1> HIDE DEF move
  <1>4. transitions' \subseteq Packages!TransitionRow
    BY <1>1, <1>2, <1>3 DEF ExportTyped, Packages!ExportTypeOK
  <1>5. Stamped(n, exportTasks, exportRecords, transitions)
    BY <1>1, StampedStays
  <1>6. Advances(Len(events), exportTasks, exportTasks', exportRecords, exportRecords',
                 transitions, transitions')
    BY <1>1, <1>2, <1>3 DEF Advances
  <1>7. \A m \in transitions' : m.at <= n
    BY <1>1, <1>2, <1>3, <1>5 DEF Stamped
  <1> QED BY <1>4, <1>5, <1>6, <1>7 DEF Stamped

LEMMA MoveInv ==
    ASSUME ExportConstants, ExportInv, NEW to \in Packages!Stages, Packages!Move(to)
    PROVE  ExportInv'
  <1> DEFINE now == Len(events) + 1
  <1>1. /\ stage' = to /\ transitions' = transitions \cup {[to |-> to, at |-> now]}
        /\ now <= MaxEvents /\ events' = Append(events, [type |-> "moved", decision |-> 0])
        /\ UNCHANGED <<exportTasks, exportRecords, fixed, releases, bound, objects,
                       artifacts, signing, docset>>
    BY DEF Packages!Move, Packages!Record, Packages!Now, Packages!calculated,
           Packages!packed, Packages!setOfDocuments, Packages!decided
  <1>2. ExportTyped /\ Len(events) \in Nat /\ to \in Packages!ApprovalState
    BY ExportRows, ExportStages DEF ExportInv
  <1>3. /\ events' \in Seq(Packages!Event) /\ Len(events') = now /\ Continues(events, events')
        /\ \A j \in 1 .. Len(events') : j > Len(events) => events'[j].type # "released"
    BY <1>1, <1>2, Recorded
  <1>4. now \in 1 .. MaxEvents /\ Len(events) < now
    BY <1>1, <1>2 DEF ExportConstants
  <1>5. /\ transitions' \subseteq Packages!TransitionRow
        /\ Advances(Len(events), exportTasks, exportTasks', exportRecords, exportRecords',
                    transitions, transitions')
        /\ Stamped(now, exportTasks', exportRecords', transitions')
    BY <1>1, <1>2, <1>4, Moved
  <1>6. ExportTyped'
    BY <1>1, <1>2, <1>3, <1>5 DEF ExportTyped, Packages!ExportTypeOK
  <1>7. Continues(fixed, fixed') /\ objects \subseteq objects'
    BY <1>1, <1>2, ExportRows DEF Continues
  <1> QED BY <1>1, <1>3, <1>5, <1>6, <1>7, NothingReleased

\* Tasks, records and moves stay as they are.
LEMMA NothingStamped ==
    ASSUME ExportInv, ExportTyped', Continues(events, events'),
           UNCHANGED <<exportTasks, exportRecords, transitions>>
    PROVE  /\ Advances(Len(events), exportTasks, exportTasks', exportRecords, exportRecords',
                       transitions, transitions')
           /\ Stamped(Len(events'), exportTasks', exportRecords', transitions')
  <1>1. Len(events') \in Nat /\ Len(events) <= Len(events')
    BY ExportRowsNext DEF Continues
  <1>2. Stamped(Len(events'), exportTasks, exportRecords, transitions)
    BY <1>1, StampedStays
  <1> QED BY <1>2 DEF Advances

LEMMA PackageCalculateInv ==
    ASSUME ExportConstants, ExportInv, Packages!Calculate
    PROVE  ExportInv'
  <1> DEFINE row == [docset |-> docset, versions |-> bound]
  <1>1. /\ fixed' = Append(fixed, row)
        /\ events' = Append(events, [type |-> "calculated", decision |-> 0])
        /\ UNCHANGED <<stage, exportTasks, exportRecords, transitions, releases, bound, objects,
                       artifacts, signing, docset>>
    BY DEF Packages!Calculate, Packages!Record, Packages!decided,
           Packages!packed, Packages!setOfDocuments
  <1>2. ExportTyped /\ fixed \in Seq(FixedRow) /\ row \in FixedRow
    BY DEF ExportInv, ExportTyped, FixedRow, Packages!ExportTypeOK
  <1> HIDE DEF row
  <1>3. /\ events' \in Seq(Packages!Event) /\ Continues(events, events')
        /\ \A j \in 1 .. Len(events') : j > Len(events) => events'[j].type # "released"
    BY <1>1, <1>2, Recorded
  <1>4. /\ fixed' \in Seq(FixedRow) /\ fixed' # <<>> /\ Len(fixed') = Len(fixed) + 1
        /\ \A i \in 1 .. Len(fixed) : fixed'[i] = fixed[i]
    BY <1>1, <1>2, Longer
  <1>5. Continues(fixed, fixed')
    BY <1>2, <1>4, ExportRows DEF Continues
  <1>6. ExportTyped'
    BY <1>1, <1>2, <1>3, <1>4 DEF ExportTyped, Packages!ExportTypeOK
  <1> QED BY <1>1, <1>3, <1>5, <1>6, NothingStamped, NothingReleased

LEMMA BindInv ==
    ASSUME ExportConstants, ExportInv, NEW v \in Version, Packages!Bind(v)
    PROVE  ExportInv'
  <1>1. /\ bound' = v /\ events' = Append(events, [type |-> "bound", decision |-> 0])
        /\ UNCHANGED <<stage, exportTasks, exportRecords, transitions, fixed, releases, objects,
                       artifacts, signing, docset>>
    BY DEF Packages!Bind, Packages!Record, Packages!decided,
           Packages!packed, Packages!setOfDocuments
  <1>2. ExportTyped
    BY DEF ExportInv
  <1>3. /\ events' \in Seq(Packages!Event) /\ Continues(events, events')
        /\ \A j \in 1 .. Len(events') : j > Len(events) => events'[j].type # "released"
    BY <1>1, <1>2, Recorded
  <1>4. Continues(fixed, fixed') /\ objects \subseteq objects'
    BY <1>1, <1>2, ExportRows DEF Continues
  <1>5. ExportTyped'
    BY <1>1, <1>2, <1>3 DEF ExportTyped, Packages!ExportTypeOK
  <1> QED BY <1>1, <1>3, <1>4, <1>5, NothingStamped, NothingReleased

\* The confirmation of a set, a new key or a package that no row names.
LEMMA NothingRecorded ==
    ASSUME ExportInv, docset' \in Nat, signing' \in SigningKey, objects \subseteq objects',
           UNCHANGED <<stage, exportTasks, exportRecords, transitions, events, fixed, releases,
                       bound, artifacts>>
    PROVE  ExportInv'
  <1>1. ExportTyped
    BY DEF ExportInv
  <1>2. ExportTyped'
    BY <1>1 DEF ExportTyped, Packages!ExportTypeOK
  <1>3. Continues(events, events') /\ Continues(fixed, fixed')
    BY <1>1, ExportRows DEF Continues
  <1>4. \A j \in 1 .. Len(events') : j > Len(events) => events'[j].type # "released"
    BY <1>1, ExportRows
  <1> QED BY <1>2, <1>3, <1>4, NothingStamped, NothingReleased

LEMMA ReplaceExportedDocumentInv ==
    ASSUME ExportConstants, ExportInv, Packages!ReplaceDocument
    PROVE  ExportInv'
  <1> DEFINE now == Len(events) + 1
             superseded(t) == [exportTasks[t] EXCEPT !.status = "SUPERSEDED", !.updated = now]
  <1>1. /\ exportTasks' = [t \in Task |->
               IF exportTasks[t] = NoRow THEN NoRow ELSE superseded(t)]
        /\ stage' = "BLOCKED"
        /\ transitions' = IF stage = "BLOCKED" THEN transitions
                          ELSE transitions \cup {[to |-> "BLOCKED", at |-> now]}
        /\ now <= MaxEvents /\ events' = Append(events, [type |-> "uploaded", decision |-> 0])
        /\ UNCHANGED <<exportRecords, fixed, releases, bound, objects, artifacts, signing, docset>>
    BY DEF Packages!ReplaceDocument, Packages!Record, Packages!Now, Packages!calculated,
           Packages!packed
  <1>2. ExportTyped /\ Len(events) \in Nat /\ "BLOCKED" \in Packages!ApprovalState
    BY ExportRows, ExportStages DEF ExportInv
  <1>3. /\ events' \in Seq(Packages!Event) /\ Len(events') = now /\ Continues(events, events')
        /\ \A j \in 1 .. Len(events') : j > Len(events) => events'[j].type # "released"
    BY <1>1, <1>2, Recorded
  <1>4. now \in 1 .. MaxEvents /\ Len(events) < now /\ now \in Nat
    <2>1. now <= MaxEvents
      BY DEF Packages!ReplaceDocument, Packages!Record, Packages!Now
    <2> QED BY <1>2, <2>1 DEF ExportConstants
  <1> HIDE DEF now
  <1>5. ASSUME NEW t \in Task, exportTasks[t] # NoRow
        PROVE  /\ exportTasks'[t] \in Packages!TaskRow /\ exportTasks'[t] # NoRow
               /\ exportTasks'[t].created = exportTasks[t].created
               /\ exportTasks'[t].updated = now
    <2> DEFINE old == exportTasks[t]
    <2>1. old \in Packages!TaskRow
      BY <1>5, TaskOfThePast
    <2>2. exportTasks'[t] = [old EXCEPT !.status = "SUPERSEDED", !.updated = now]
      BY <1>1, <1>5
    <2> HIDE DEF old
    <2>3. /\ exportTasks'[t] \in Packages!TaskRow
          /\ exportTasks'[t].created = old.created /\ exportTasks'[t].updated = now
      BY <1>4, <2>1, <2>2 DEF Packages!TaskRow
    <2> QED BY <2>3 DEF old, ExportConstants
  <1>6. \A t \in Task : exportTasks[t] = NoRow => exportTasks'[t] = NoRow
    BY <1>1
  <1>7. exportTasks' \in [Task -> Packages!TaskRow \cup {NoRow}]
    <2>1. \A t \in Task : exportTasks'[t] \in Packages!TaskRow \cup {NoRow}
      BY <1>5, <1>6
    <2> HIDE DEF superseded
    <2> QED BY <1>1, <2>1
  <1>8. transitions' \subseteq Packages!TransitionRow
        /\ transitions \subseteq transitions'
        /\ (\A m \in transitions' \ transitions : m.at = now)
    <2> DEFINE move == [to |-> "BLOCKED", at |-> now]
    <2>1. move \in Packages!TransitionRow /\ move.at = now
      BY <1>2, <1>4 DEF Packages!TransitionRow
    <2>2. transitions' = IF stage = "BLOCKED" THEN transitions ELSE transitions \cup {move}
      BY <1>1
    <2> HIDE DEF move
    <2>3. transitions \subseteq Packages!TransitionRow
      BY <1>2 DEF ExportTyped, Packages!ExportTypeOK
    <2> QED BY <2>1, <2>2, <2>3
  <1>9. Advances(Len(events), exportTasks, exportTasks', exportRecords, exportRecords',
                 transitions, transitions')
    <2>1. \A t \in Task :
              \/ exportTasks'[t] = exportTasks[t]
              \/ /\ exportTasks'[t] # NoRow /\ exportTasks'[t].updated > Len(events)
                 /\ IF exportTasks[t] = NoRow THEN exportTasks'[t].created > Len(events)
                    ELSE exportTasks'[t].created = exportTasks[t].created
      BY <1>2, <1>4, <1>5, <1>6
    <2>2. \A m \in transitions' \ transitions : m.at > Len(events)
      BY <1>2, <1>4, <1>8
    <2> QED BY <1>1, <1>8, <2>1, <2>2 DEF Advances
  <1>10. Stamped(now, exportTasks, exportRecords, transitions)
    BY <1>2, <1>4, StampedStays
  <1>11. Stamped(now, exportTasks', exportRecords', transitions')
    <2>1. \A t \in Task : exportTasks'[t] # NoRow =>
              exportTasks'[t].created <= exportTasks'[t].updated /\ exportTasks'[t].updated <= now
      <3> SUFFICES ASSUME NEW t \in Task, exportTasks'[t] # NoRow
                   PROVE  /\ exportTasks'[t].created <= exportTasks'[t].updated
                          /\ exportTasks'[t].updated <= now
        OBVIOUS
      <3>1. exportTasks[t] # NoRow
        BY <1>6
      <3>2. exportTasks[t].created \in Nat /\ exportTasks[t].created <= Len(events)
        BY <3>1, TaskOfThePast
      <3> QED BY <1>2, <1>4, <1>5, <3>1, <3>2
    <2>2. ASSUME NEW d \in exportRecords
          PROVE  /\ exportTasks'[d.task] # NoRow
                 /\ exportTasks'[d.task].created <= d.at /\ d.at <= now
      <3>1. exportTasks[d.task] # NoRow /\ exportTasks[d.task].created <= d.at /\ d.at <= now
        BY <1>10 DEF Stamped
      <3>2. d.task \in Task
        BY <1>2, ExportRows DEF Packages!RecordRow
      <3> QED BY <1>5, <3>1, <3>2
    <2>3. \A m \in transitions' : m.at <= now
      BY <1>4, <1>8, <1>10 DEF Stamped
    <2> QED BY <1>1, <2>1, <2>2, <2>3 DEF Stamped
  <1>12. ExportTyped'
    BY <1>1, <1>2, <1>3, <1>7, <1>8 DEF ExportTyped, Packages!ExportTypeOK
  <1>13. Continues(fixed, fixed') /\ objects \subseteq objects'
    <2>1. fixed' = fixed /\ objects' = objects
      BY <1>1
    <2> QED BY <1>2, <2>1, ExportRows DEF Continues
  <1> QED BY <1>1, <1>3, <1>9, <1>11, <1>12, <1>13, NothingReleased

\* A release: its decision saw what there is.
LEMMA AttemptReleaseInv ==
    ASSUME ExportConstants, ExportInv, NEW q \in Packages!Released, NEW allowed \in BOOLEAN,
           Packages!AttemptRelease(q, allowed)
    PROVE  ExportInv'
  <1> DEFINE now == Len(events) + 1
             target == IF allowed THEN q ELSE "BLOCKED"
             number == Len(releases) + 1
             seen == [tasks |-> Packages!TaskView(now), records |-> exportRecords,
                      workflow |-> transitions']
             row == [snapshot |-> Len(fixed), allowed |-> allowed, state |-> target, seen |-> seen]
             first == [type |-> "moved", decision |-> 0]
             second == [type |-> "released", decision |-> number]
  <1>1. /\ stage' = target /\ transitions' = transitions \cup {[to |-> target, at |-> now]}
        /\ now + 1 <= MaxEvents /\ events' = events \o <<first, second>>
        /\ releases' = Append(releases, row)
        /\ UNCHANGED <<exportTasks, exportRecords, fixed, bound, objects, artifacts, signing, docset>>
    BY DEF Packages!AttemptRelease, Packages!Now, Packages!packed, Packages!setOfDocuments,
           Packages!decided
  <1>2. /\ ExportTyped /\ Len(events) \in Nat /\ Len(releases) \in Nat /\ Len(fixed) \in Nat
        /\ Len(fixed) > 0 /\ events \in Seq(Packages!Event) /\ releases \in Seq(ReleaseRow)
    BY ExportRows DEF ExportInv
  <1>3. target \in Packages!ApprovalState
    BY ExportStages
  <1>4. now + 1 \in 1 .. MaxEvents /\ Len(events) < now + 1
    BY <1>1, <1>2 DEF ExportConstants
  <1>5. /\ transitions' \subseteq Packages!TransitionRow
        /\ Advances(Len(events), exportTasks, exportTasks', exportRecords, exportRecords',
                    transitions, transitions')
        /\ Stamped(now + 1, exportTasks', exportRecords', transitions')
    BY <1>1, <1>3, <1>4, Moved
  <1>6. /\ events' \in Seq(Packages!Event) /\ Len(events') = now + 1
        /\ events'[now].type = "moved" /\ events'[now + 1].type = "released"
        /\ events'[now + 1].decision = number
        /\ \A i \in 1 .. Len(events) : events'[i] = events[i]
    <2>1. first \in Packages!Event /\ second \in Packages!Event
          /\ first.type = "moved" /\ second.type = "released" /\ second.decision = number
      BY <1>2 DEF Packages!Event
    <2> DEFINE step == <<first, second>>
    <2>2. step \in Seq(Packages!Event) /\ Len(step) = 2 /\ step[1] = first /\ step[2] = second
      BY <2>1
    <2>3. events' = events \o step
      BY <1>1
    <2> HIDE DEF step, first, second
    <2>4. /\ events' \in Seq(Packages!Event) /\ Len(events') = Len(events) + 2
          /\ \A i \in 1 .. Len(events) + 2 :
                events'[i] = IF i <= Len(events) THEN events[i] ELSE step[i - Len(events)]
      <3> DEFINE s == events
                 t == events'
      <3>1. s \in Seq(Packages!Event) /\ t = s \o step
        BY <1>2, <2>3
      <3> HIDE DEF s, t
      <3>2. t \in Seq(Packages!Event) /\ Len(t) = Len(s) + Len(step)
        BY <2>2, <3>1, ConcatProperties
      <3>3. \A i \in 1 .. Len(s) + Len(step) :
                t[i] = IF i <= Len(s) THEN s[i] ELSE step[i - Len(s)]
        BY <2>2, <3>1, ConcatProperties
      <3> QED BY <2>2, <3>2, <3>3 DEF s, t
    <2>5. events'[now] = step[1] /\ events'[now + 1] = step[2]
      BY <1>2, <2>4
    <2> QED BY <1>2, <2>1, <2>2, <2>4, <2>5
  <1>7. Continues(events, events') /\ Continues(fixed, fixed')
    BY <1>1, <1>2, <1>6 DEF Continues
  <1>8. row \in ReleaseRow /\ row.snapshot = Len(fixed) /\ row.seen = seen
    <2>1. Packages!TaskView(now) \in SUBSET (Task \X DecisionStatus)
      <3> SUFFICES ASSUME NEW x \in Packages!TaskView(now) PROVE x \in Task \X DecisionStatus
        OBVIOUS
      <3>1. PICK t \in Task : exportTasks[t] # NoRow /\ x = <<t, exportTasks[t].status>>
        BY DEF Packages!TaskView
      <3>2. exportTasks[t].status \in DecisionStatus
        BY <3>1, TaskOfThePast DEF Packages!TaskRow, DecisionStatus
      <3> QED BY <3>1, <3>2
    <2>2. exportRecords \in SUBSET Packages!RecordRow
      BY <1>2 DEF ExportTyped, Packages!ExportTypeOK
    <2>3. seen \in SeenRow
      BY <1>5, <2>1, <2>2 DEF SeenRow
    <2> HIDE DEF seen, target
    <2> QED BY <1>2, <1>3, <2>3 DEF ReleaseRow
  <1> HIDE DEF row
  <1>9. /\ releases' \in Seq(ReleaseRow) /\ Len(releases') = number /\ releases'[number] = row
        /\ \A r \in 1 .. Len(releases) : releases'[r] = releases[r]
    BY <1>1, <1>2, <1>8, Longer
  <1>10. Continues(releases, releases')
    BY <1>2, <1>9 DEF Continues
  <1>11. ExportTyped'
    BY <1>1, <1>2, <1>3, <1>5, <1>6, <1>9 DEF ExportTyped, Packages!ExportTypeOK
  <1>12. \A i \in 1 .. Len(events) :
             events[i].type = "released" => events[i].decision \in 1 .. Len(releases)
    BY DEF ExportInv, ReleasesStand
  <1>13. \A j \in 1 .. Len(events') : j > Len(events) /\ events'[j].type = "released" => j = now + 1
    <2> SUFFICES ASSUME NEW j \in 1 .. Len(events'), j > Len(events), events'[j].type = "released"
                 PROVE  j = now + 1
      OBVIOUS
    <2>1. j = now \/ j = now + 1
      BY <1>2, <1>6
    <2> QED BY <1>6, <2>1
  <1>14. Saw(seen, now + 1, exportTasks, exportRecords, transitions')
    <2>1. \A t \in Task : exportTasks[t] # NoRow =>
              exportTasks[t].created <= now /\ exportTasks[t].created <= now + 1
      BY <1>2, TaskOfThePast
    <2>2. seen.tasks = {<<t, exportTasks[t].status>> : t \in {u \in Task :
                             exportTasks[u] # NoRow /\ exportTasks[u].created <= now + 1}}
      <3> DEFINE then == {u \in Task : exportTasks[u] # NoRow /\ exportTasks[u].created <= now}
                 later == {u \in Task : exportTasks[u] # NoRow /\ exportTasks[u].created <= now + 1}
      <3>1. then = later
        BY <2>1
      <3>2. seen.tasks = {<<t, exportTasks[t].status>> : t \in then}
        BY DEF Packages!TaskView
      <3> HIDE DEF then, later, seen
      <3>3. seen.tasks = {<<t, exportTasks[t].status>> : t \in later}
        BY <3>1, <3>2
      <3> QED BY <3>3 DEF later
    <2>3. \A d \in exportRecords : d.at <= now + 1
      BY <1>1, <1>5 DEF Stamped
    <2>4. \A m \in transitions' : m.at <= now + 1
      BY <1>5 DEF Stamped
    <2>5. seen.records = exportRecords /\ seen.workflow = transitions'
      OBVIOUS
    <2> HIDE DEF seen
    <2>6. seen.records = {d \in exportRecords : d.at <= now + 1}
      BY <2>3, <2>5
    <2>7. seen.workflow = {m \in transitions' : m.at <= now + 1}
      BY <2>4, <2>5
    <2> QED BY <2>2, <2>6, <2>7 DEF Saw
  <1> HIDE DEF seen
  <1>15. ASSUME NEW r \in 1 .. number
         PROVE  ReleaseStands(r, releases'[r], Len(fixed'), events', exportTasks', exportRecords',
                              transitions')
    <2>1. CASE r = number
      <3>1. now + 1 \in 1 .. Len(events')
        BY <1>2, <1>6
      <3>2. \A j \in 1 .. Len(events') :
                events'[j].type = "released" /\ events'[j].decision = number => j = now + 1
        <4> SUFFICES ASSUME NEW j \in 1 .. Len(events'), events'[j].type = "released",
                            events'[j].decision = number
                     PROVE  j = now + 1
          OBVIOUS
        <4>1. j \notin 1 .. Len(events)
          <5> SUFFICES ASSUME j \in 1 .. Len(events) PROVE FALSE
            OBVIOUS
          <5>1. events[j].decision \in 1 .. Len(releases)
            BY <1>6, <1>12
          <5> QED BY <1>2, <1>6, <5>1
        <4> QED BY <1>2, <1>6, <1>13, <4>1
      <3>3. row.snapshot \in 1 .. Len(fixed')
        BY <1>1, <1>2, <1>8
      <3>4. Saw(row.seen, now + 1, exportTasks', exportRecords', transitions')
        BY <1>1, <1>8, <1>14
      <3> QED BY <1>6, <1>9, <2>1, <3>1, <3>2, <3>3, <3>4 DEF ReleaseStands
    <2>2. CASE r # number
      <3>1. r \in 1 .. Len(releases) /\ releases'[r] = releases[r]
        BY <1>2, <1>9, <2>2
      <3>2. \A j \in 1 .. Len(events') : j > Len(events) /\ events'[j].type = "released"
                                             => events'[j].decision # r
        BY <1>6, <1>13, <2>2
      <3>3. Len(fixed) <= Len(fixed')
        BY <1>7 DEF Continues
      <3> QED BY <1>5, <1>7, <1>11, <3>1, <3>2, <3>3, ReleaseStays
    <2> QED BY <2>1, <2>2
  <1>16. \A i \in 1 .. Len(events') :
             events'[i].type = "released" => events'[i].decision \in 1 .. number
    <2> SUFFICES ASSUME NEW i \in 1 .. Len(events'), events'[i].type = "released"
                 PROVE  events'[i].decision \in 1 .. number
      OBVIOUS
    <2>1. CASE i \in 1 .. Len(events)
      <3>1. events'[i].decision \in 1 .. Len(releases)
        BY <1>6, <1>12, <2>1
      <3> QED BY <1>2, <3>1
    <2>2. CASE i \notin 1 .. Len(events)
      <3>1. i = now + 1
        BY <1>2, <1>6, <1>13, <2>2
      <3> QED BY <1>2, <1>6, <3>1
    <2> QED BY <2>1, <2>2
  <1>17. ReleasesStand(releases', Len(fixed'), events', exportTasks', exportRecords', transitions')
    BY <1>9, <1>15, <1>16 DEF ReleasesStand
  <1>18. ArtifactsStand(artifacts', objects', fixed', releases', events')
    <2>1. objects \subseteq objects'
      BY <1>1
    <2>2. \A a \in artifacts : ArtifactStands(a, objects', fixed', releases', events')
      BY <1>7, <1>10, <1>11, <2>1, ArtifactStays
    <2> QED BY <1>1, <2>2 DEF ArtifactsStand, ExportInv
  <1>19. Stamped(Len(events'), exportTasks', exportRecords', transitions')
    BY <1>5, <1>6
  <1> QED BY <1>11, <1>17, <1>18, <1>19 DEF ExportInv

\* A package that is made of an exportable release says what the release saw.
LEMMA PackageStands ==
    ASSUME ExportInv, NEW s \in DOMAIN fixed, NEW r \in DOMAIN releases,
           Packages!Exportable(s, r), NEW a, NEW packages,
           a = [snapshot |-> s, release |-> r, template |-> bound,
                object |-> Packages!Package(s, r), key |-> signing],
           Packages!Package(s, r) \in packages
    PROVE  ArtifactStands(a, packages, fixed, releases, events)
  <1> DEFINE object == Packages!Package(s, r)
             cut == Packages!Cutoff(r)
  <1>1. /\ ExportTyped /\ Len(events) \in Nat /\ DOMAIN events = 1 .. Len(events)
        /\ events \in Seq(Packages!Event)
        /\ s \in 1 .. Len(fixed) /\ r \in 1 .. Len(releases)
    BY ExportRows DEF ExportInv
  <1>2. /\ fixed[s].versions = bound /\ r \in Packages!ReleaseOf(s) /\ Packages!LineageResolves
        /\ Packages!NoneMoved(cut)
    BY DEF Packages!Exportable
  <1>3. releases[r].snapshot = s /\ releases[r].allowed
    BY <1>2 DEF Packages!ReleaseOf
  <1>4. PICK i \in 1 .. Len(events) :
          /\ events[i].type = "released" /\ events[i].decision = r
          /\ \A j \in 1 .. Len(events) :
                events[j].type = "released" /\ events[j].decision = r => j = i
          /\ Saw(releases[r].seen, i, exportTasks, exportRecords, transitions)
    BY <1>1 DEF ExportInv, ReleasesStand, ReleaseStands
  <1>5. cut = i
    <2>1. \E j \in DOMAIN events : events[j].type = "released" /\ events[j].decision = r
      BY <1>1, <1>4
    <2>2. \A j \in DOMAIN events : events[j].type = "released" /\ events[j].decision = r => j = i
      BY <1>1, <1>4
    <2> QED BY <2>1, <2>2 DEF Packages!Cutoff
  <1>6. /\ object.snapshot = s /\ object.versions = bound /\ object.release = r
        /\ object.key = signing /\ object.approvals = Packages!Approvals(cut)
        /\ object.workflow = Packages!WorkflowUpTo(cut)
        /\ object.chain = SubSeq(events, 1, cut) /\ object.lineage = Packages!Lineage
    BY DEF Packages!Package
  <1> HIDE DEF object, cut
  <1>7. \A t \in Task : exportTasks[t] # NoRow /\ exportTasks[t].created <= i
                           => exportTasks[t].updated <= i
    BY <1>2, <1>5 DEF Packages!NoneMoved, Packages!TasksBefore
  <1>8. Packages!TaskView(i) = releases[r].seen.tasks
    BY <1>4, <1>7 DEF Saw, Packages!TaskView
  <1>9. {d \in exportRecords : d.task \in Packages!TasksBefore(i) /\ d.at <= i}
            = releases[r].seen.records
    <2>1. releases[r].seen.records = {d \in exportRecords : d.at <= i}
      BY <1>4 DEF Saw
    <2>2. \A d \in exportRecords : d.at <= i => d.task \in Packages!TasksBefore(i)
      <3> SUFFICES ASSUME NEW d \in exportRecords, d.at <= i
                   PROVE  d.task \in Packages!TasksBefore(i)
        OBVIOUS
      <3>1. d.task \in Task /\ d.at \in Nat
        BY <1>1, ExportRows DEF Packages!RecordRow
      <3>2. exportTasks[d.task] # NoRow /\ exportTasks[d.task].created <= d.at
        BY DEF ExportInv, Stamped
      <3>3. exportTasks[d.task].created \in Nat
        BY <3>1, <3>2, TaskOfThePast
      <3>4. exportTasks[d.task].created <= i
        BY <3>1, <3>2, <3>3
      <3> QED BY <3>1, <3>2, <3>4 DEF Packages!TasksBefore
    <2> QED BY <2>1, <2>2
  <1>10. object.approvals = [tasks |-> releases[r].seen.tasks, records |-> releases[r].seen.records]
    BY <1>5, <1>6, <1>8, <1>9 DEF Packages!Approvals
  <1>11. object.workflow = releases[r].seen.workflow
    BY <1>4, <1>5, <1>6 DEF Saw, Packages!WorkflowUpTo
  <1>12. /\ object.chain \in Seq(Packages!Event) /\ Len(object.chain) = i
         /\ \A j \in 1 .. i : object.chain[j] = events[j]
    <2>1. object.chain = SubSeq(events, 1, i) /\ \A j \in 1 .. i : events[j] \in Packages!Event
      BY <1>1, <1>5, <1>6, HasLast
    <2> QED BY <1>1, <2>1, SubSeqProperties
  <1>13. Continues(object.chain, events)
    BY <1>1, <1>12 DEF Continues
  <1>14. /\ a.snapshot = s /\ a.release = r /\ a.template = bound /\ a.object = object
         /\ a.key = signing
    BY DEF object
  <1>15. object \in packages
    BY DEF object
  <1>16. Len(object.chain) > 0 /\ object.chain[Len(object.chain)].decision = r
    BY <1>1, <1>4, <1>12
  <1> QED BY <1>1, <1>2, <1>3, <1>6, <1>10, <1>11, <1>12, <1>13, <1>14, <1>15, <1>16
          DEF ArtifactStands

LEMMA GenerateInv ==
    ASSUME ExportConstants, ExportInv, NEW s \in DOMAIN fixed, NEW r \in DOMAIN releases,
           NEW committed \in BOOLEAN, Packages!Generate(s, r, committed)
    PROVE  ExportInv'
  <1> DEFINE object == Packages!Package(s, r)
             artifact == [snapshot |-> s, release |-> r, template |-> bound,
                          object |-> object, key |-> signing]
  <1>1. /\ Packages!Exportable(s, r) /\ objects' = objects \cup {object}
        /\ UNCHANGED <<stage, exportTasks, exportRecords, transitions, fixed, releases, bound,
                       signing, docset>>
    BY DEF Packages!Generate, Packages!decided, Packages!calculated, Packages!setOfDocuments
  <1>2. ExportTyped /\ docset \in Nat /\ signing \in SigningKey
    BY DEF ExportInv, ExportTyped, Packages!ExportTypeOK
  <1>3. CASE ~ committed
    <2>1. UNCHANGED <<artifacts, events>>
      BY <1>3 DEF Packages!Generate
    <2> QED BY <1>1, <1>2, <2>1, NothingRecorded
  <1>4. CASE committed
    <2>1. /\ artifacts' = artifacts \cup {artifact}
          /\ events' = Append(events, [type |-> "exported", decision |-> 0])
          /\ Packages!Existing(s, r) = {}
      BY <1>4 DEF Packages!Generate
    <2>2. /\ events' \in Seq(Packages!Event) /\ Continues(events, events')
          /\ \A j \in 1 .. Len(events') : j > Len(events) => events'[j].type # "released"
      BY <1>2, <2>1, Recorded
    <2>3. ExportTyped'
      BY <1>1, <1>2, <2>2 DEF ExportTyped, Packages!ExportTypeOK
    <2>4. Continues(fixed, fixed') /\ Continues(releases, releases')
      BY <1>1, <1>2, ExportRows DEF Continues
    <2>5. \A a \in artifacts : ArtifactStands(a, objects', fixed', releases', events')
      BY <1>1, <2>2, <2>3, <2>4, ArtifactStays
    <2>6. ArtifactStands(artifact, objects', fixed, releases, events)
      <3>1. Packages!Package(s, r) \in objects'
        BY <1>1
      <3> QED BY <1>1, <3>1, PackageStands
    <2>7. artifact.snapshot = s /\ artifact.release = r
      OBVIOUS
    <2> HIDE DEF artifact
    <2>8. ArtifactStands(artifact, objects', fixed', releases', events')
      <3>1. Continues(artifact.object.chain, events')
        <4>1. artifact.object.chain \in Seq(Packages!Event)
              /\ Continues(artifact.object.chain, events)
          BY <2>6 DEF ArtifactStands
        <4>2. Len(artifact.object.chain) \in Nat /\ Len(events) \in Nat /\ Len(events') \in Nat
          BY <1>2, <2>3, <4>1, HasLast, ExportRows, ExportRowsNext
        <4>3. \A j \in 1 .. Len(artifact.object.chain) : j \in 1 .. Len(events)
          BY <4>1, <4>2 DEF Continues
        <4>4. \A j \in 1 .. Len(artifact.object.chain) : artifact.object.chain[j] = events'[j]
          BY <2>2, <4>1, <4>3 DEF Continues
        <4>5. Len(artifact.object.chain) <= Len(events) /\ Len(events) <= Len(events')
          BY <2>2, <4>1 DEF Continues
        <4> QED BY <4>2, <4>4, <4>5 DEF Continues
      <3>2. fixed' = fixed /\ releases' = releases
        BY <1>1
      <3> QED BY <2>6, <3>1, <3>2 DEF ArtifactStands
    <2>9. ASSUME NEW a \in artifacts, a.snapshot = s, a.release = r
          PROVE  FALSE
      <3>1. a.template = fixed[s].versions
        BY <2>9 DEF ExportInv, ArtifactsStand, ArtifactStands
      <3>2. fixed[s].versions = bound
        BY <1>1 DEF Packages!Exportable
      <3> QED BY <2>1, <2>9, <3>1, <3>2 DEF Packages!Existing
    <2>10. ArtifactsStand(artifacts', objects', fixed', releases', events')
      <3>1. \A a, b \in artifacts : a.snapshot = b.snapshot /\ a.release = b.release => a = b
        BY DEF ExportInv, ArtifactsStand
      <3>2. \A a, b \in artifacts' : a.snapshot = b.snapshot /\ a.release = b.release => a = b
        BY <2>1, <2>7, <2>9, <3>1
      <3>3. \A a \in artifacts' : ArtifactStands(a, objects', fixed', releases', events')
        BY <2>1, <2>5, <2>8
      <3> QED BY <3>2, <3>3 DEF ArtifactsStand
    <2>11. /\ Advances(Len(events), exportTasks, exportTasks', exportRecords, exportRecords',
                       transitions, transitions')
           /\ Stamped(Len(events'), exportTasks', exportRecords', transitions')
      BY <1>1, <2>2, <2>3, NothingStamped
    <2>12. ReleasesStand(releases', Len(fixed'), events', exportTasks', exportRecords', transitions')
      <3>1. releases' = releases /\ Len(fixed) <= Len(fixed')
        BY <1>1, <2>4 DEF Continues
      <3>2. \A q \in 1 .. Len(releases) : ReleaseStands(q, releases'[q], Len(fixed'), events',
                exportTasks', exportRecords', transitions')
        BY <2>2, <2>3, <2>11, <3>1, ReleaseStays
      <3>3. ASSUME NEW j \in 1 .. Len(events'), events'[j].type = "released"
            PROVE  events'[j].decision \in 1 .. Len(releases)
        <4>1. Len(events) \in Nat /\ Len(events') \in Nat
          BY <1>2, <2>3, ExportRows, ExportRowsNext
        <4>2. j \in 1 .. Len(events)
          BY <2>2, <3>3, <4>1
        <4>3. events'[j] = events[j]
          BY <2>2, <4>2 DEF Continues
        <4> QED BY <3>3, <4>2, <4>3 DEF ExportInv, ReleasesStand
      <3> QED BY <3>1, <3>2, <3>3 DEF ReleasesStand
    <2> QED BY <2>3, <2>10, <2>11, <2>12 DEF ExportInv
  <1> QED BY <1>3, <1>4

LEMMA ExportNextInv ==
    ASSUME ExportConstants, ExportInv, [Packages!ExportNext]_(Packages!exportVars)
    PROVE  ExportInv'
  <1>0. docset \in Nat /\ signing \in SigningKey
    BY DEF ExportInv, ExportTyped, Packages!ExportTypeOK
  <1>1. ASSUME NEW t \in Task, Packages!PlanTask(t)
        PROVE  ExportInv'
    BY <1>1, PlanTaskInv
  <1>2. ASSUME NEW t \in Task, Packages!DecideTask(t)
        PROVE  ExportInv'
    BY <1>2, DecideTaskInv
  <1>3. ASSUME NEW to \in Packages!Stages, Packages!Move(to)
        PROVE  ExportInv'
    BY <1>3, MoveInv
  <1>4. CASE Packages!Calculate
    BY <1>4, PackageCalculateInv
  <1>5. ASSUME NEW v \in Version \ {bound}, Packages!Bind(v)
        PROVE  ExportInv'
    BY <1>5, BindInv
  <1>6. CASE Packages!ReplaceDocument
    BY <1>6, ReplaceExportedDocumentInv
  <1>7. CASE Packages!ConfirmSet
    <2>1. /\ docset' = docset + 1
          /\ UNCHANGED <<stage, exportTasks, exportRecords, transitions, events, fixed, releases,
                         bound, artifacts, objects, signing>>
      BY <1>7 DEF Packages!ConfirmSet, Packages!decided, Packages!calculated, Packages!packed
    <2>2. docset' \in Nat /\ signing' \in SigningKey /\ objects \subseteq objects'
      BY <1>0, <2>1
    <2> QED BY <2>1, <2>2, NothingRecorded
  <1>8. ASSUME NEW q \in Packages!Released, NEW allowed \in BOOLEAN,
               Packages!AttemptRelease(q, allowed)
        PROVE  ExportInv'
    BY <1>8, AttemptReleaseInv
  <1>9. ASSUME NEW s \in DOMAIN fixed, NEW r \in DOMAIN releases, NEW c \in BOOLEAN,
               Packages!Generate(s, r, c)
        PROVE  ExportInv'
    BY <1>9, GenerateInv
  <1>10. ASSUME NEW k \in SigningKey, Packages!RotateKey(k)
         PROVE  ExportInv'
    <2>1. /\ signing' = k
          /\ UNCHANGED <<stage, exportTasks, exportRecords, transitions, events, fixed, releases,
                         bound, artifacts, objects, docset>>
      BY <1>10 DEF Packages!RotateKey, Packages!decided, Packages!calculated,
         Packages!setOfDocuments
    <2>2. docset' \in Nat /\ signing' \in SigningKey /\ objects \subseteq objects'
      BY <1>0, <2>1
    <2> QED BY <2>1, <2>2, NothingRecorded
  <1>11. CASE UNCHANGED Packages!exportVars
    <2>1. UNCHANGED <<stage, exportTasks, exportRecords, transitions, events, fixed, releases,
                      bound, artifacts, objects, signing, docset>>
      BY <1>11 DEF Packages!exportVars
    <2>2. docset' \in Nat /\ signing' \in SigningKey /\ objects \subseteq objects'
      BY <1>0, <2>1
    <2> QED BY <2>1, <2>2, NothingRecorded
  <1> QED BY <1>1, <1>2, <1>3, <1>4, <1>5, <1>6, <1>7, <1>8, <1>9, <1>10, <1>11
          DEF Packages!ExportNext

LEMMA ExportHolds ==
    ASSUME LineageConstants, ExportInv
    PROVE  Packages!ExportTypeOK /\ Packages!ExportStands
  <1>1. /\ ExportTyped /\ Len(events) \in Nat /\ DOMAIN fixed = 1 .. Len(fixed)
        /\ DOMAIN releases = 1 .. Len(releases) /\ events \in Seq(Packages!Event)
        /\ fixed \in Seq(FixedRow)
    BY ExportRows DEF ExportInv
  <1>2. ASSUME NEW a \in artifacts
        PROVE  Packages!Verifies(a) /\ Packages!SaysWhatWasReleased(a)
               /\ Packages!LineageComplete(a)
    <2>1. ArtifactStands(a, objects, fixed, releases, events)
      BY DEF ExportInv, ArtifactsStand
    <2> DEFINE chain == a.object.chain
    <2>2. /\ chain \in Seq(Packages!Event) /\ Len(chain) > 0 /\ Continues(chain, events)
          /\ chain[Len(chain)].decision = a.release
      BY <2>1 DEF ArtifactStands
    <2>3. a.object.versions \in Version
      <3>1. fixed[a.snapshot] \in FixedRow
        BY <1>1, <2>1, HasLast DEF ArtifactStands
      <3> QED BY <2>1, <3>1 DEF ArtifactStands, FixedRow
    <2> HIDE DEF chain
    <2>4. chain # <<>> /\ chain = SubSeq(events, 1, Len(chain)) /\ chain[Len(chain)].decision = a.release
      <3> DEFINE n == Len(chain)
      <3>1. n \in Nat /\ n <= Len(events) /\ \A i \in 1 .. n : events[i] = chain[i]
        BY <2>2, HasLast DEF Continues
      <3>2. SubSeq(chain, 1, n) = chain
        BY <2>2, SubSeqFull
      <3>3. SubSeq(events, 1, n) = chain
        <4>1. \A i \in 1 .. n : i \in 1 .. Len(events) /\ events[i] \in Packages!Event
          BY <1>1, <3>1, HasLast
        <4>2. /\ SubSeq(events, 1, n) \in Seq(Packages!Event) /\ Len(SubSeq(events, 1, n)) = n
              /\ \A i \in 1 .. n : SubSeq(events, 1, n)[i] = events[i]
          BY <1>1, <3>1, <4>1, SubSeqProperties
        <4> QED BY <2>2, <3>1, <4>2, SeqEqual
      <3>4. chain # <<>>
        BY <2>2
      <3> QED BY <2>2, <3>1, <3>2, <3>3, <3>4
    <2>5. Packages!Verifies(a)
      BY <1>1, <2>1, <2>3, <2>4 DEF Packages!Verifies, ArtifactStands, Packages!TrustedKey,
         Packages!VersionsVerify, chain
    <2>6. Packages!SaysWhatWasReleased(a)
      BY <2>1 DEF ArtifactStands, Packages!SaysWhatWasReleased
    <2>7. Packages!LineageComplete(a)
      BY <2>1, LineageIsComplete DEF ArtifactStands
    <2> QED BY <2>5, <2>6, <2>7
  <1>3. \A a, b \in artifacts : a.snapshot = b.snapshot /\ a.release = b.release => a = b
    BY DEF ExportInv, ArtifactsStand
  <1> QED BY <1>1, <1>2, <1>3 DEF ExportTyped, Packages!ExportStands

-----------------------------------------------------------------------------
(* The components together: a behaviour of Records is one of the component  *)
(* that runs in it.                                                         *)

\* A behaviour starts as one of its component ...
LEMMA PartBegins ==
    ASSUME RecordsInit
    PROVE  /\ part = "evidence" => Facts!EvidenceInit
           /\ part = "contracts" => Contract!TermInit
           /\ part = "risks" => Risks!RiskInit
           /\ part = "passport" => Profile!PassportInit
           /\ part = "prices" => Pricing!PriceInit
           /\ part = "boq" => Quantities!BoqInit
           /\ part = "costs" => Models!CostInit
           /\ part = "packages" => Packages!ExportInit
           /\ part = "inbox" => Init
  BY DEF RecordsInit

\* ... and goes on as one: the component that runs makes its own steps.
LEMMA PartRuns ==
    ASSUME [RecordsNext]_recordsVars
    PROVE  /\ part' = part
           /\ part = "evidence" => [Facts!EvidenceNext]_(Facts!evidenceVars)
           /\ part = "contracts" => [Contract!TermNext]_(Contract!termVars)
           /\ part = "risks" => [Risks!RiskNext]_(Risks!riskVars)
           /\ part = "passport" => [Profile!PassportNext]_(Profile!passportVars)
           /\ part = "prices" => [Pricing!PriceNext]_(Pricing!priceVars)
           /\ part = "boq" => [Quantities!BoqNext]_(Quantities!boqVars)
           /\ part = "costs" => [Models!CostNext]_(Models!costVars)
           /\ part = "packages" => [Packages!ExportNext]_(Packages!exportVars)
           /\ part = "inbox" => [Next]_vars
  <1>1. CASE UNCHANGED recordsVars
    BY <1>1 DEF recordsVars, setVars, factsVars, contractVars, risksVars, profileVars,
                pricingVars, quantitiesVars, modelsVars, packagesVars, Facts!evidenceVars,
                Contract!termVars, Risks!riskVars, Profile!passportVars, Pricing!priceVars,
                Quantities!boqVars, Quantities!documentVars, Models!costVars, Packages!exportVars
  <1>2. CASE RecordsNext
    BY <1>2 DEF RecordsNext
  <1> QED BY <1>1, <1>2

\* What a stage gate takes from evidence, contract, risk register and passport
\* rests on independent sources or on a review by somebody else, over the
\* documents of the current set.
THEOREM StatementsRemain == RecordsSpec => []StatementsStand
  <1> DEFINE Inv == /\ part = "evidence" => EvidenceInv
                    /\ part = "contracts" => TermInv
                    /\ part = "risks" => RiskInv
                    /\ part = "passport" => PassportInv
  <1>0. EvidenceConstants /\ ContractConstants /\ PassportConstants
    BY RecordsAssumption
  <1>1. RecordsInit => Inv
    BY <1>0, PartBegins, EvidenceInitInv, TermInitInv, RiskInitInv, PassportInitInv
  <1>2. Inv /\ [RecordsNext]_recordsVars => Inv'
    BY <1>0, PartRuns, EvidenceNextInv, TermNextInv, RiskNextInv, PassportNextInv
  <1>3. Inv => StatementsStand
    BY <1>0, EvidenceHolds, TermHolds, RiskHolds, PassportHolds DEF StatementsStand
  <1> QED BY <1>1, <1>2, <1>3, PTL DEF RecordsSpec

\* What a calculation takes from prices, quantities and cost models still
\* follows from what it was decided on, and the package that is exported says
\* what its release decision saw, with the whole lineage of its costs.
THEOREM CostsRemain == RecordsSpec => []CostsStand
  <1> DEFINE Inv == /\ part = "prices" => PriceInv
                    /\ part = "boq" => BoqInv
                    /\ part = "costs" => CostInv
                    /\ part = "packages" => ExportInv
  <1>0. PriceConstants /\ QuantityConstants /\ CostConstants /\ LineageConstants
        /\ ExportConstants
    BY RecordsAssumption
  <1>1. RecordsInit => Inv
    BY <1>0, PartBegins, PriceInitInv, BoqInitInv, CostInitInv, ExportInitInv
  <1>2. Inv /\ [RecordsNext]_recordsVars => Inv'
    BY <1>0, PartRuns, PriceNextInv, BoqNextInv, CostNextInv, ExportNextInv
  <1>3. Inv => CostsStand
    BY <1>0, PriceHolds, BoqHolds, CostHolds, ExportHolds DEF CostsStand
  <1> QED BY <1>1, <1>2, <1>3, PTL DEF RecordsSpec

\* A message has at most one generation that is not dead-lettered
\* (replay_dead_letter).
THEOREM GenerationsRemainExclusive == RecordsSpec => []OneGenerationIsOpen
  <1> DEFINE Inv == (part = "inbox" => IInv)
  <1>1. RecordsInit => Inv
    BY PartBegins, IInvInit
  <1>2. Inv /\ [RecordsNext]_recordsVars => Inv'
    BY PartRuns, IInvStep
  <1>3. Inv => OneGenerationIsOpen
    BY OneIsOpen DEF OneGenerationIsOpen
  <1> QED BY <1>1, <1>2, <1>3, PTL DEF RecordsSpec

\* A settled generation stays as it was settled (_locked_processing,
\* _require_processing_owner, replay_dead_letter).
THEOREM SettledRowsRemain == RecordsSpec => VerdictsStay
  <1> DEFINE Inv == (part = "inbox" => IInv)
             Kept == part = "inbox" => \A p \in Processing : Settled(processing[p]) =>
                        processing'[p] \in {processing[p], AgedRow(processing[p])}
  <1>1. RecordsInit => Inv
    BY PartBegins, IInvInit
  <1>2. Inv /\ [RecordsNext]_recordsVars => Inv'
    BY PartRuns, IInvStep
  <1>3. Inv /\ [RecordsNext]_recordsVars => [Kept]_recordsVars
    BY PartRuns, SettledRowKept
  <1> QED BY <1>1, <1>2, <1>3, PTL DEF RecordsSpec, VerdictsStay
=============================================================================
