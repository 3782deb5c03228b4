---------------------------- MODULE CommandLedger ----------------------------
(***************************************************************************)
(* Mutating commands as PostgreSQL transactions.  A command of the API       *)
(* reserves its idempotency key, runs its handler (row locks and audit       *)
(* events, in the handler's order) and stores its response, all in one       *)
(* transaction; a command of a worker does the same without a key.  The      *)
(* statements of concurrent transactions interleave: a statement waits for   *)
(* the transactions that hold what it needs, and reads what was committed    *)
(* when it began.  A row of audit_events stands also for its                 *)
(* "audit.event.recorded" outbox row, which the same call inserts.           *)
(***************************************************************************)
EXTENDS Naturals, Sequences, FiniteSets

CONSTANTS
    Request,        \* server threads, each with one database session
    Key,            \* idempotency keys of one actor
    Aggregate,      \* audited aggregates, each with a business row to lock
    ApiCommand,     \* commands of the API: sequences of [op, on] statements
    WorkerCommand,  \* commands of the workers, without a key
    MaxEvents,      \* bound: no worker starts a command with this many events
    None

Command == ApiCommand \cup WorkerCommand

Statement == [op : {"lock", "append"}, on : Aggregate]

ASSUME CommandAssumption == \A c \in Command : c \in Seq(Statement)

ASSUME NoneAssumption == None \notin Key \cup Command

ASSUME MaxEventsAssumption == MaxEvents \in Nat

VARIABLES
    records,  \* records[k]: the committed row of idempotency_records for k
    events,   \* committed rows of audit_events; "previous" stands for the hash
              \* of the previous row, which covers that row's own previous hash
    answers,  \* responses to commands under a key that were sent
    request   \* request[r]: what thread r executes

vars == <<records, events, answers, request>>

Phase == {"idle", "reserving", "running", "peeked", "inserting"}

\* Where every chain starts: GENESIS_HASH.
Genesis == [sequence |-> 0]

NoRecord == [command |-> None, response |-> <<>>]

Idle == [key |-> None, command |-> <<>>, done |-> 0, rows |-> <<>>,
         last |-> Genesis, phase |-> "idle"]

Init ==
    /\ records = [k \in Key |-> NoRecord]
    /\ events = {}
    /\ answers = {}
    /\ request = [r \in Request |-> Idle]
-----------------------------------------------------------------------------
In(r, phase) == request[r].phase = phase

Active == {r \in Request : ~In(r, "idle")}

Recorded(k) == records[k].command # None

Elements(s) == {s[i] : i \in DOMAIN s}

Finished(q) == q.done = Len(q.command)

\* The statement a running transaction executes next.
Current(q) == q.command[q.done + 1]

\* Mutant: the reservation does not conflict with another one.
ReservesNothing(q) == FALSE

Reserves(q) == q.key # None /\ q.phase # "reserving"

\* Mutant: get_project(lock=False).
LocksNothing(q) == {}

\* Business rows locked FOR UPDATE, until the end of the transaction.
Locks(q) ==
    {q.command[i].on : i \in {j \in 1 .. q.done : q.command[j].op = "lock"}}

\* Audit rows locked FOR UPDATE as the last of their chain.
LastRows(q) ==
    {row.previous : row \in Elements(q.rows)}
        \cup (IF q.phase = "inserting" THEN {q.last} ELSE {})

\* append_event: the next sequence number and the hash of the previous event.
NewRow(q) ==
    [aggregate |-> Current(q).on,
     sequence |-> q.last.sequence + 1,
     key |-> q.key,
     statement |-> q.done + 1,
     previous |-> q.last]

\* UniqueConstraint("aggregate_type", "aggregate_id", "sequence").
SameSlot(row, other) ==
    row.aggregate = other.aggregate /\ row.sequence = other.sequence

\* The other transaction holds what the next statement of q waits for.
Blocks(other, q) ==
    CASE q.phase = "reserving" -> Reserves(other) /\ other.key = q.key
      [] q.phase = "running" ->
            /\ ~Finished(q)
            /\ Current(q).op = "lock"
            /\ Current(q).on \in Locks(other)
      [] q.phase = "peeked" -> q.last \in LastRows(other)
      [] q.phase = "inserting" ->
            \E row \in Elements(other.rows) : SameSlot(row, NewRow(q))

Blockers(r) == {o \in Active \ {r} : Blocks(request[o], request[r])}

Unblocked(r, phase) == In(r, phase) /\ Blockers(r) = {}

At(r, op) == ~Finished(request[r]) /\ Current(request[r]).op = op
-----------------------------------------------------------------------------
\* A request of the API under a key, or a command of a worker.
Arrive(r) ==
    /\ In(r, "idle")
    /\ \E k \in Key \cup {None}, c \in Command :
          /\ IF k # None THEN c \in ApiCommand
             ELSE c \in WorkerCommand /\ Cardinality(events) < MaxEvents
          /\ request' = [request EXCEPT ![r] =
                [key |-> k, command |-> c, done |-> 0, rows |-> <<>>, last |-> Genesis,
                 phase |-> IF k = None THEN "running" ELSE "reserving"]]
    /\ UNCHANGED <<records, events, answers>>

\* INSERT ... ON CONFLICT DO NOTHING has inserted the reservation.
Acquire(r) ==
    /\ Unblocked(r, "reserving")
    /\ ~Recorded(request[r].key)
    /\ request' = [request EXCEPT ![r].phase = "running"]
    /\ UNCHANGED <<records, events, answers>>

\* Mutant: the request hash is not compared.
SameKey(q) == TRUE

\* The request method, path and hash.
SameRequest(q) == records[q.key].command = q.command

\* A committed record under the key is always COMPLETED.  A different request
\* under the key gets 409, the same one the stored response.
AnswerRecorded(r) ==
    /\ Unblocked(r, "reserving")
    /\ Recorded(request[r].key)
    /\ answers' = IF SameRequest(request[r])
                     THEN answers \cup {[key |-> request[r].key,
                                         command |-> request[r].command,
                                         response |-> records[request[r].key].response]}
                     ELSE answers
    /\ request' = [request EXCEPT ![r] = Idle]
    /\ UNCHANGED <<records, events>>

\* SELECT ... FOR UPDATE of the project or of the upload.
LockRow(r) ==
    /\ Unblocked(r, "running")
    /\ At(r, "lock")
    /\ request' = [request EXCEPT ![r].done = @ + 1]
    /\ UNCHANGED <<records, events, answers>>

\* Mutant: the aggregate is missing from the WHERE clause.
LastOfAll(visible, a) ==
    IF visible = {} THEN Genesis
    ELSE CHOOSE row \in visible : \A other \in visible : other.sequence <= row.sequence

\* The last row of the chain, among the committed ones and one's own, when the
\* SELECT begins.
LastOf(visible, a) ==
    LET chain == {row \in visible : row.aggregate = a}
    IN  IF chain = {} THEN Genesis
        ELSE CHOOSE row \in chain : \A other \in chain : other.sequence <= row.sequence

Peek(r) ==
    /\ In(r, "running")
    /\ At(r, "append")
    /\ LET q == request[r]
           last == LastOf(events \cup Elements(q.rows), Current(q).on)
       IN  request' = [request EXCEPT ![r] = [q EXCEPT
                          !.phase = IF last = Genesis THEN "inserting" ELSE "peeked",
                          !.last = last]]
    /\ UNCHANGED <<records, events, answers>>

\* The row lock is granted; the row that was found is not looked up again.
LockLast(r) ==
    /\ Unblocked(r, "peeked")
    /\ request' = [request EXCEPT ![r].phase = "inserting"]
    /\ UNCHANGED <<records, events, answers>>

\* Mutant: the unique constraint is missing.
SlotFree(q) == FALSE

SlotTaken(q) ==
    \E row \in events \cup Elements(q.rows) : SameSlot(row, NewRow(q))

AppendEvent(r) ==
    /\ Unblocked(r, "inserting")
    /\ ~SlotTaken(request[r])
    /\ LET q == request[r]
       IN  request' = [request EXCEPT ![r] = [q EXCEPT
              !.phase = "running",
              !.done = q.done + 1,
              !.last = Genesis,
              !.rows = Append(q.rows, NewRow(q))]]
    /\ UNCHANGED <<records, events, answers>>

\* Mutant: the insert is tried again with the row that was looked up.
CollideRetries(r) ==
    /\ Unblocked(r, "inserting")
    /\ SlotTaken(request[r])
    /\ request' = [request EXCEPT ![r].phase = "peeked"]
    /\ UNCHANGED <<records, events, answers>>

\* IntegrityError: the transaction rolls back and the API answers 409.
Collide(r) ==
    /\ Unblocked(r, "inserting")
    /\ SlotTaken(request[r])
    /\ request' = [request EXCEPT ![r] = Idle]
    /\ UNCHANGED <<records, events, answers>>

\* The response is stored and everything commits together.  The response
\* reports what the command did, here the audit rows it wrote.
Commit(r) ==
    /\ In(r, "running")
    /\ Finished(request[r])
    /\ LET q == request[r]
           record == [command |-> q.command, response |-> q.rows]
       IN  /\ events' = events \cup Elements(q.rows)
           /\ records' = [k \in Key |-> IF k = q.key THEN record ELSE records[k]]
           /\ answers' = IF q.key = None THEN answers
                         ELSE answers \cup {[key |-> q.key,
                                             command |-> q.command,
                                             response |-> q.rows]}
    /\ request' = [request EXCEPT ![r] = Idle]

\* A non-2xx response, an exception or a lost process: nothing remains, not
\* even the reservation.
RollBack(r) ==
    /\ r \in Active
    /\ request' = [request EXCEPT ![r] = Idle]
    /\ UNCHANGED <<records, events, answers>>

\* Every member of some set of transactions waits for another member.
Deadlocked(r) ==
    /\ r \in Active
    /\ Blockers(r) # {}
    /\ \E S \in SUBSET Active :
          /\ r \in S
          /\ \A p \in S : Blockers(p) \cap S # {}

\* PostgreSQL aborts one of them.
DeadlockVictim(r) ==
    /\ Deadlocked(r)
    /\ request' = [request EXCEPT ![r] = Idle]
    /\ UNCHANGED <<records, events, answers>>
-----------------------------------------------------------------------------
Step(r) ==
    \/ Acquire(r) \/ AnswerRecorded(r)
    \/ LockRow(r) \/ Peek(r) \/ LockLast(r) \/ AppendEvent(r) \/ Collide(r)
    \/ Commit(r)
    \/ DeadlockVictim(r)

Next == \E r \in Request : Arrive(r) \/ Step(r) \/ RollBack(r)

Spec == Init /\ [][Next]_vars

\* Waiting transactions are served in the order in which they came.
Fairness == \A r \in Request : SF_vars(Step(r))

FairSpec == Spec /\ Fairness
-----------------------------------------------------------------------------
RowsOf(k) == {row \in events : row.key = k}

EventsOn(a) == {row \in events : row.aggregate = a}

Appends(c) == {i \in DOMAIN c : c[i].op = "append"}

RowOK(row) ==
    /\ DOMAIN row = {"aggregate", "sequence", "key", "statement", "previous"}
    /\ row.aggregate \in Aggregate
    /\ row.sequence \in Nat \ {0}
    /\ row.key \in Key \cup {None}

\* Types of the variables.  A request that reserves its key has written
\* nothing.
TypeOK ==
    /\ \A row \in events : RowOK(row)
    /\ \A k \in Key : Recorded(k) => records[k].command \in ApiCommand
    /\ \A r \in Active :
          /\ request[r].key \in Key \cup {None}
          /\ request[r].command \in Command
          /\ request[r].done \in 0 .. Len(request[r].command)
          /\ request[r].phase \in Phase
          /\ \A row \in Elements(request[r].rows) : RowOK(row)
          /\ request[r].phase = "reserving" => request[r].done = 0

\* A key has a record exactly when its command took effect, and then just
\* once: the audit rows written under the key are those the stored response
\* reports, one for each event the command appends.
EffectIffRecorded ==
    \A k \in Key :
        IF ~Recorded(k) THEN RowsOf(k) = {}
        ELSE /\ RowsOf(k) = Elements(records[k].response)
             /\ Cardinality(RowsOf(k)) = Cardinality(Appends(records[k].command))

\* verify_chain accepts the committed chain of every aggregate: its rows are
\* numbered from 1 with no gap and no fork, and each one carries the hash of
\* the row before it.
ChainVerifies ==
    \A a \in Aggregate :
        /\ {row.sequence : row \in EventsOn(a)} = 1 .. Cardinality(EventsOn(a))
        /\ \A row \in EventsOn(a) :
              IF row.sequence = 1 THEN row.previous = Genesis
              ELSE /\ row.previous \in EventsOn(a)
                   /\ row.previous.sequence = row.sequence - 1

\* Every command that appends to the chain of a has locked the business row
\* of a before.
Guarded(a) ==
    \A c \in Command : \A i \in DOMAIN c :
        c[i] = [op |-> "append", on |-> a]
            => \E j \in 1 .. i - 1 : c[j] = [op |-> "lock", on |-> a]

\* Locking the business row is enough: on such a chain no transaction is ever
\* about to insert a sequence number that is taken, so none fails with an
\* IntegrityError there.  (The chain of a project is not such a chain: the
\* workers append to it under the lock of the upload only.)
GuardedChainsNeverCollide ==
    \A r \in Request : \A a \in Aggregate :
        (In(r, "inserting") /\ Guarded(a) /\ Current(request[r]).on = a)
            => ~SlotTaken(request[r])

\* Concurrent commands leave chains that verify, and only on chains that are
\* not guarded do they meet.
ChainsStand == TypeOK /\ ChainVerifies /\ GuardedChainsNeverCollide

\* What a client was told under a key is what the ledger holds: all successful
\* answers under one key are to one command and equal.
AnswersAreDurable ==
    \A answer \in answers :
        records[answer.key] = [command |-> answer.command,
                               response |-> answer.response]

\* Every attempt ends, although the workers lock an upload before its project
\* and the operators the project before the upload.
AttemptsEnd == \A r \in Request : ~In(r, "idle") ~> In(r, "idle")
-----------------------------------------------------------------------------
KeyAt(a, n) ==
    LET here == {row \in EventsOn(a) : row.sequence = n}
    IN  IF here = {} THEN None ELSE (CHOOSE row \in here : TRUE).key

Serial == INSTANCE SerialLedger WITH
    chain <- [a \in Aggregate |->
                 [n \in 1 .. Cardinality(EventsOn(a)) |-> KeyAt(a, n)]],
    accepted <- [k \in Key |-> records[k].command]

\* The interleaved transactions implement a serial ledger: each commit extends
\* every chain it writes at its end, with all its events in one block.
ImplementsSerialLedger == Serial!Spec
=============================================================================
