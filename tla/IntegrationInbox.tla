-------------------------- MODULE IntegrationInbox --------------------------
(***************************************************************************)
(* The durable inbox (IntegrationInboxService of                            *)
(* application/integrations.py): reception of signed envelopes that the     *)
(* source sends again and again, and the processing of each stored message  *)
(* by qualified handlers, in generations that an administrator replays.     *)
(*                                                                         *)
(* A row of integration_inbox_processings is claimed, retried and settled   *)
(* exactly like a row of the outbox, with CONSUMED for published, so the    *)
(* rows are those of OutboxEvent.                                           *)
(***************************************************************************)
EXTENDS OutboxEvent

CONSTANTS
    Key,             \* delivery deduplication keys of the source
    Id,              \* message ids of the source
    Content,         \* everything else that the core hash covers
    Receiver,        \* API processes
    NoCall,          \* an API process between two requests
    NoClaim,         \* a handler process between two claims
    NoQualification, \* handler_qualification_id is NULL
    MaxQualifications, \* bound: versions of the handler qualification
    TimeoutSeconds,  \* integration_job_timeout_seconds
    MaxGenerations,  \* bound: 1 + replays of a message
    MaxFaults        \* bound: crashed handlers and missed deadlines

\* config.py refuses a timeout that is not shorter than the lease.
ASSUME InboxAssumption ==
    /\ TimeoutSeconds \in Nat \ {0}
    /\ TimeoutSeconds < LeaseSeconds
    /\ MaxGenerations \in Nat \ {0}
    /\ MaxQualifications \in Nat \ {0}
    /\ MaxFaults \in Nat

Envelope == [key : Key, id : Id, content : Content]

Processing == Key \X (1 .. MaxGenerations)

Qualification == 1 .. MaxQualifications

\* Besides the tokens that processes and rows remember there is a fresh one.
ASSUME TokenAssumption ==
    /\ Token # {}
    /\ \A f \in [Worker -> Token], g \in [Processing -> Token] :
          \E t \in Token : /\ \A w \in Worker : f[w] # t
                           /\ \A p \in Processing : g[p] # t

VARIABLES
    inbox,       \* stored messages: the rows of integration_inbox_messages
    call,        \* call[r]: the envelope process r is about to insert
    receipts,    \* envelopes that a signed receipt was returned for
    processing,  \* processing[<<k, g>>]: generation g of the message with key k
    handler,     \* handler[<<k, g>>]: handler_qualification_id of that row
    active,      \* the version of the handler qualification that is valid
    claim,       \* claim[w]: the IntegrationInboxClaim process w holds
    faults

vars == <<inbox, call, receipts, processing, handler, active, claim, faults>>

Claim ==
    [row : Processing, token : Token, by : Qualification,
     elapsed : 0 .. LeaseSeconds]

TypeOK ==
    /\ inbox \subseteq Envelope
    /\ call \in [Receiver -> Envelope \cup {NoCall}]
    /\ receipts \subseteq Envelope
    /\ processing \in [Processing -> Row]
    /\ handler \in [Processing -> Qualification \cup {NoQualification}]
    /\ active \in Qualification
    /\ claim \in [Worker -> Claim \cup {NoClaim}]
    /\ faults \in 0 .. MaxFaults

Init ==
    /\ inbox = {}
    /\ call = [r \in Receiver |-> NoCall]
    /\ receipts = {}
    /\ processing = [p \in Processing |-> AbsentRow]
    /\ handler = [p \in Processing |-> NoQualification]
    /\ active = 1
    /\ claim = [w \in Worker |-> NoClaim]
    /\ faults = 0
-----------------------------------------------------------------------------
(* receive                                                                  *)

\* _existing_message: a stored message with the same id or the same key.
Existing(envelope) ==
    {m \in inbox : m.id = envelope.id \/ m.key = envelope.key}

\* _require_same_message: the core hash covers id, key and content.
Same(m, envelope) == m = envelope

\* The first look finds a message: its stored receipt is returned again, or
\* the envelope is refused.  If two messages match, either may be found.
AnswerDuplicate(r, envelope) ==
    /\ call[r] = NoCall
    /\ \E m \in Existing(envelope) :
        receipts' = IF Same(m, envelope) THEN receipts \cup {envelope}
                    ELSE receipts
    /\ UNCHANGED <<inbox, call, processing, handler, active, claim, faults>>

\* The first look finds nothing; the envelope is fresh and signed.
LookUp(r, envelope) ==
    /\ call[r] = NoCall
    /\ Existing(envelope) = {}
    /\ call' = [call EXCEPT ![r] = envelope]
    /\ UNCHANGED <<inbox, receipts, processing, handler, active, claim, faults>>

\* Mutant: an insert that conflicts is taken for a duplicate delivery.
StoreTrusting(r) ==
    /\ call[r] # NoCall
    /\ IF Existing(call[r]) = {}
       THEN /\ inbox' = inbox \cup {call[r]}
            /\ processing' = [processing EXCEPT ![<<call[r].key, 1>>] = InsertedRow]
       ELSE UNCHANGED <<inbox, processing>>
    /\ receipts' = receipts \cup {call[r]}
    /\ call' = [call EXCEPT ![r] = NoCall]
    /\ UNCHANGED <<handler, active, claim, faults>>

\* Mutant: the receipt is signed before the insert is known to succeed.
StoreReceiptFirst(r) ==
    /\ call[r] # NoCall
    /\ receipts' = IF \A m \in Existing(call[r]) : Same(m, call[r])
                   THEN receipts \cup {call[r]} ELSE receipts
    /\ \/ /\ Existing(call[r]) = {}
          /\ inbox' = inbox \cup {call[r]}
          /\ processing' = [processing EXCEPT ![<<call[r].key, 1>>] = InsertedRow]
       \/ UNCHANGED <<inbox, processing>>
    /\ call' = [call EXCEPT ![r] = NoCall]
    /\ UNCHANGED <<handler, active, claim, faults>>

\* INSERT ... ON CONFLICT DO NOTHING on both unique constraints, with the
\* first processing row; after a conflict the message is looked up again.
Store(r) ==
    /\ call[r] # NoCall
    /\ \/ /\ Existing(call[r]) = {}
          /\ inbox' = inbox \cup {call[r]}
          /\ processing' = [processing EXCEPT ![<<call[r].key, 1>>] = InsertedRow]
          /\ receipts' = receipts \cup {call[r]}
       \/ /\ \E m \in Existing(call[r]) :
                receipts' = IF Same(m, call[r]) THEN receipts \cup {call[r]}
                            ELSE receipts
          /\ UNCHANGED <<inbox, processing>>
    /\ call' = [call EXCEPT ![r] = NoCall]
    /\ UNCHANGED <<handler, active, claim, faults>>

\* The transaction is rolled back.
ReceptionFails(r) ==
    /\ call[r] # NoCall
    /\ call' = [call EXCEPT ![r] = NoCall]
    /\ UNCHANGED <<inbox, receipts, processing, handler, active, claim, faults>>
-----------------------------------------------------------------------------
(* claim_next, acknowledge, reject, replay_dead_letter                      *)

FreshToken ==
    CHOOSE t \in Token :
        /\ \A w \in Worker : claim[w] # NoClaim => claim[w].token # t
        /\ \A p \in Processing :
            processing[p].lease # NoLease => processing[p].lease.token # t

\* claim_next: the first claim ties the row to the qualification version of
\* its handler, later claims need the same version.
ClaimNext(w) ==
    /\ claim[w] = NoClaim
    /\ \E p \in Processing :
        /\ Claimable(processing[p])
        /\ handler[p] \in {NoQualification, active}
        /\ processing' = [processing EXCEPT ![p] = ClaimedRow(@, w, FreshToken)]
        /\ handler' = [handler EXCEPT ![p] = active]
        /\ claim' = [claim EXCEPT ![w] =
              [row |-> p, token |-> FreshToken, by |-> active, elapsed |-> 0]]
    /\ UNCHANGED <<inbox, call, receipts, active, faults>>

\* _handler_binding, _locked_processing and _require_processing_owner.  The
\* deadline is last_attempt_at plus the timeout, and last_attempt_at is
\* written with the lease.
OwnsProcessing(w) ==
    LET row == processing[claim[w].row] IN
    /\ claim[w].by = active
    /\ Pending(row)
    /\ Owns(row, w, claim[w].token)
    /\ row.lease.left > LeaseSeconds - TimeoutSeconds

\* The handler stored its result.  A settlement that is refused changes
\* nothing, and the process is done with its claim.
Acknowledge(w) ==
    /\ claim[w] # NoClaim
    /\ processing' = IF OwnsProcessing(w)
                     THEN [processing EXCEPT ![claim[w].row] = PublishedRow(@)]
                     ELSE processing
    /\ claim' = [claim EXCEPT ![w] = NoClaim]
    /\ UNCHANGED <<inbox, call, receipts, handler, active, faults>>

Reject(w) ==
    /\ claim[w] # NoClaim
    /\ \E force \in BOOLEAN :
        processing' = IF OwnsProcessing(w)
                      THEN [processing EXCEPT ![claim[w].row] =
                                RejectedRow(@, force, TRUE)]
                      ELSE processing
    /\ claim' = [claim EXCEPT ![w] = NoClaim]
    /\ UNCHANGED <<inbox, call, receipts, handler, active, faults>>

\* Mutant: any dead-lettered generation may be replayed.
ReplayableAgain(k, g) == processing[<<k, g>>].deadLettered

\* Mutant: the status of the generation is not looked at.
ReplayableOpen(k, g) ==
    /\ processing[<<k, g>>].exists
    /\ ~processing[<<k, g + 1>>].exists

\* Only the newest generation, and only when it is dead-lettered.
Replayable(k, g) ==
    /\ processing[<<k, g>>].deadLettered
    /\ ~processing[<<k, g + 1>>].exists

\* replay_dead_letter: the next generation starts with no attempts and no
\* handler.
ReplayDeadLetter(k, g) ==
    /\ Replayable(k, g)
    /\ processing' = [processing EXCEPT ![<<k, g + 1>>] = InsertedRow]
    /\ handler' = [handler EXCEPT ![<<k, g + 1>>] = NoQualification]
    /\ UNCHANGED <<inbox, call, receipts, active, claim, faults>>
-----------------------------------------------------------------------------
\* The qualification of the handlers expires (valid_until), and they go on
\* under the next version.
RotateQualification ==
    /\ active < MaxQualifications
    /\ active' = active + 1
    /\ UNCHANGED <<inbox, call, receipts, processing, handler, claim, faults>>

Crash(w) ==
    /\ claim[w] # NoClaim
    /\ faults < MaxFaults
    /\ faults' = faults + 1
    /\ claim' = [claim EXCEPT ![w] = NoClaim]
    /\ UNCHANGED <<inbox, call, receipts, processing, handler, active>>

\* With this tick a handler that still works misses its deadline.
Overrun == \E w \in Worker :
    claim[w] # NoClaim /\ claim[w].elapsed = TimeoutSeconds - 1

Tick ==
    /\ processing' = [p \in Processing |-> AgedRow(processing[p])]
    /\ claim' = [w \in Worker |->
                    IF claim[w] # NoClaim /\ claim[w].elapsed < LeaseSeconds
                    THEN [claim[w] EXCEPT !.elapsed = @ + 1]
                    ELSE claim[w]]
    /\ IF Overrun
       THEN faults < MaxFaults /\ faults' = faults + 1
       ELSE faults' = faults
    /\ UNCHANGED <<inbox, call, receipts, handler, active>>

Receive ==
    \E r \in Receiver :
        \/ \E envelope \in Envelope : AnswerDuplicate(r, envelope) \/ LookUp(r, envelope)
        \/ Store(r)
        \/ ReceptionFails(r)

Next ==
    \/ Receive
    \/ \E w \in Worker :
        \/ ClaimNext(w)
        \/ Acknowledge(w)
        \/ Reject(w)
        \/ Crash(w)
    \/ \E k \in Key, g \in 1 .. MaxGenerations - 1 : ReplayDeadLetter(k, g)
    \/ RotateQualification
    \/ Tick

Spec == Init /\ [][Next]_vars

\* The scheduler keeps running handlers, a handler settles its claim, and time
\* passes.  Claiming needs strong fairness: the processes may be busy whenever
\* a row is claimable.
Fairness ==
    /\ WF_vars(Tick)
    /\ \A w \in Worker :
        SF_vars(ClaimNext(w)) /\ WF_vars(Acknowledge(w) \/ Reject(w))

FairSpec == Spec /\ Fairness
-----------------------------------------------------------------------------
\* Receipts never contradict each other: whatever is sent at the same time
\* under one message id or one deduplication key, at most one content of it
\* is acknowledged to the source.
ReceiptsAgree ==
    \A a, b \in receipts : (a.id = b.id \/ a.key = b.key) => a = b

\* What the source has a receipt for is stored and will be processed: its
\* message and its first generation are durable.
ReceiptIsDurable ==
    \A a \in receipts : a \in inbox /\ processing[<<a.key, 1>>].exists

\* A receipt is a promise that no other receipt takes back.
ReceiptStands == TypeOK /\ ReceiptsAgree /\ ReceiptIsDurable

\* A message is worked on in one generation at a time: all but the newest are
\* dead-lettered, so it is consumed at most once.
OneOpenGeneration ==
    \A k \in Key : \A g \in 1 .. MaxGenerations - 1 :
        processing[<<k, g + 1>>].exists => processing[<<k, g>>].deadLettered

\* Every generation is consumed or dead-lettered in the end, although handlers
\* crash and miss deadlines (finitely often): docs/integration-delivery.md,
\* "Claims have expiring ownership tokens, bounded retry, and immutable
\* consumed/dead-letter terminal states".  Excepted is a generation that was
\* claimed under a qualification which ran out since: no other handler takes it.
GenerationsSettle ==
    \A p \in Processing :
        processing[p].exists ~>
            Settled(processing[p]) \/ handler[p] \notin {NoQualification, active}

\* docs/integration-delivery.md: "Claims have expiring ownership tokens,
\* bounded retry".
RetryIsBounded ==
    \A p \in Processing : processing[p].attempts <= MaxAttempts
=============================================================================
