------------------------- MODULE CommandLedgerProofs -------------------------
(***************************************************************************)
(* Proofs about CommandLedger, for any number of threads and keys and any    *)
(* commands: concurrent transactions leave audit chains that verify, take    *)
(* effect once and as a whole, and implement a serial ledger.                *)
(***************************************************************************)
EXTENDS CommandLedger, FiniteSetTheorems, FunctionTheorems, SequenceTheorems, TLAPS

\* The rows of a thread's transaction on the chain of a, not committed yet.
Own(q, a) == {row \in Elements(q.rows) : row.aggregate = a}

\* What the thread itself sees of that chain.
Visible(q, a) == EventsOn(a) \cup Own(q, a)

Positioned(q) == q.phase \in {"peeked", "inserting"}

\* The rows S are numbered from 1 to n.
Numbered(S, n) ==
    /\ \A x \in S : x.sequence \in 1 .. n
    /\ \A i \in 1 .. n : \E x \in S : x.sequence = i

\* The rows S are a chain: no gap, no fork, and each carries the one before.
Chain(S) ==
    /\ \E n \in Nat : Numbered(S, n)
    /\ \A x, y \in S : x.sequence = y.sequence => x = y
    /\ \A x \in S :
          IF x.sequence = 1 THEN x.previous = Genesis
          ELSE x.previous \in S /\ x.previous.sequence = x.sequence - 1

Session(q) ==
    [key : Key \cup {None}, command : Command \cup {<<>>}, done : Nat,
     rows : Seq(Elements(q.rows)), last : {q.last}, phase : Phase]

\* The functions and records that the actions update.
Shapes ==
    /\ request = [r \in Request |-> request[r]]
    /\ \A r \in Request : request[r] \in Session(request[r])
    /\ records = [k \in Key |-> records[k]]
    /\ \A k \in Key :
          records[k] \in [command : ApiCommand \cup {None}, response : {records[k].response}]
    /\ \A row \in events : RowOK(row)

\* A transaction has written exactly one row for each event that its command
\* appends up to here, and is only about to insert where one is next.
WroteSoFar(q) ==
    /\ q.command \in Command
    /\ q.done \in 0 .. Len(q.command)
    /\ q.key # None => q.command \in ApiCommand
    /\ q.phase = "reserving" => q.done = 0 /\ q.key # None
    /\ Positioned(q) => ~Finished(q) /\ Current(q).op = "append"
    /\ \A row \in Elements(q.rows) :
          /\ RowOK(row)
          /\ row.key = q.key
          /\ row.statement \in 1 .. q.done
          /\ q.command[row.statement] = [op |-> "append", on |-> row.aggregate]
    /\ \A i \in 1 .. q.done :
          q.command[i].op = "append" => \E row \in Elements(q.rows) : row.statement = i
    /\ \A row, other \in Elements(q.rows) :
          row.statement = other.statement => row = other

TransactionsStand ==
    \A r \in Request :
        IF In(r, "idle") THEN request[r] = Idle ELSE WroteSoFar(request[r])

\* Who holds a reservation is alone with the key, and it is fresh.
KeysAreHeld ==
    \A r \in Request :
        Reserves(request[r]) =>
            /\ ~Recorded(request[r].key)
            /\ \A s \in Request :
                  Reserves(request[s]) /\ request[s].key = request[r].key => s = r

AnswersAreRecorded ==
    \A answer \in answers : answer.key \in Key /\ Recorded(answer.key)

RowLocksAreExclusive ==
    \A r, s \in Request : \A a \in Locks(request[r]) \cap Locks(request[s]) : r = s

\* Only one transaction at a time has written to the chain of a, although none
\* needs to lock it: the second waits for the number, and then finds it taken.
OneWriter ==
    \A r, s \in Request : \A a \in Aggregate :
        Own(request[r], a) # {} /\ Own(request[s], a) # {} => r = s

OwnRowsAreNew ==
    \A r \in Request : Elements(request[r].rows) \cap events = {}

\* The committed chains, and each as every thread sees it.
ChainsAreWhole ==
    \A a \in Aggregate :
        /\ Chain(EventsOn(a))
        /\ \A r \in Request : Chain(Visible(request[r], a))

\* The row that a thread found as the last one is one it still sees, and on a
\* guarded chain it is still the last.
LastStands ==
    \A r \in Request :
        LET q == request[r]
            a == Current(q).on
        IN  Positioned(q) =>
                /\ q.last = Genesis \/ q.last \in Visible(q, a)
                /\ Guarded(a) =>
                      \A row \in Visible(q, a) : row.sequence <= q.last.sequence

\* The inductive invariant.
IInv ==
    /\ Shapes
    /\ TransactionsStand
    /\ KeysAreHeld
    /\ EffectIffRecorded
    /\ AnswersAreDurable
    /\ AnswersAreRecorded
    /\ RowLocksAreExclusive
    /\ OneWriter
    /\ OwnRowsAreNew
    /\ ChainsAreWhole
    /\ LastStands
-----------------------------------------------------------------------------
(* Sets of rows.                                                            *)

\* A set with a member for each member of a finite set has its size.
LEMMA OneForEach ==
    ASSUME NEW E, NEW W, IsFiniteSet(W), NEW f \in [E -> W],
           \A i \in W : \E x \in E : f[x] = i,
           \A x, y \in E : f[x] = f[y] => x = y
    PROVE  IsFiniteSet(E) /\ Cardinality(E) = Cardinality(W)
<1>1. f \in Bijection(E, W)
  BY DEF Bijection, Injection, Surjection, IsInjective
<1>2. ExistsBijection(W, E)
  BY <1>1, Fun_ExistsBijSymmetric DEF ExistsBijection
<1>3. QED
  BY <1>2, FS_Bijection

\* What Append does to the set of rows, and to the type of their sequence.
LEMMA AppendedElements ==
    ASSUME NEW s, s \in Seq(Elements(s)), NEW x
    PROVE  /\ Elements(Append(s, x)) = Elements(s) \cup {x}
           /\ Append(s, x) \in Seq(Elements(Append(s, x)))
<1> DEFINE S == Elements(s) \cup {x}
<1>1. s \in Seq(S)
  <2>1. Len(s) \in Nat /\ s \in [1 .. Len(s) -> Elements(s)]
    OBVIOUS
  <2>2. s \in [1 .. Len(s) -> S]
    BY <2>1
  <2>3. QED
    BY <2>1, <2>2
<1>2. /\ Append(s, x) \in Seq(S)
      /\ DOMAIN Append(s, x) = 1 .. Len(s) + 1
      /\ \A i \in 1 .. Len(s) : Append(s, x)[i] = s[i]
      /\ Append(s, x)[Len(s) + 1] = x
      /\ DOMAIN s = 1 .. Len(s)
      /\ Len(s) \in Nat
  BY <1>1
<1>3. Elements(Append(s, x)) = S
  <2>1. ASSUME NEW i \in 1 .. Len(s) + 1
        PROVE  Append(s, x)[i] \in S
    BY <1>2
  <2>2. ASSUME NEW y \in Elements(s)
        PROVE  \E i \in 1 .. Len(s) + 1 : y = Append(s, x)[i]
    BY <1>2 DEF Elements
  <2>3. x = Append(s, x)[Len(s) + 1] /\ Len(s) + 1 \in 1 .. Len(s) + 1
    BY <1>2
  <2>4. QED
    BY <1>2, <2>1, <2>2, <2>3 DEF Elements
<1>4. QED
  BY <1>2, <1>3

\* A chain is finite, and has as many rows as its last number says.
LEMMA ChainSize ==
    ASSUME NEW S, Chain(S)
    PROVE  /\ IsFiniteSet(S)
           /\ Cardinality(S) \in Nat
           /\ Numbered(S, Cardinality(S))
<1>1. PICK n \in Nat : Numbered(S, n)
  BY DEF Chain
<1> DEFINE f == [x \in S |-> x.sequence]
<1>2. f \in [S -> 1 .. n]
  BY <1>1 DEF Numbered
<1>3. \A i \in 1 .. n : \E x \in S : f[x] = i
  BY <1>1 DEF Numbered
<1>4. \A x, y \in S : f[x] = f[y] => x = y
  BY DEF Chain
<1>5. IsFiniteSet(1 .. n) /\ Cardinality(1 .. n) = n
  BY FS_Interval
<1> HIDE DEF f
<1>6. IsFiniteSet(S) /\ Cardinality(S) = n
  BY <1>2, <1>3, <1>4, <1>5, OneForEach
<1>7. QED
  BY <1>1, <1>6

\* A row that follows some row of the chain, with a number that is not taken,
\* follows the last one.
LEMMA ChainExtends ==
    ASSUME NEW S, Chain(S), NEW row,
           row.previous = Genesis \/ row.previous \in S,
           row.sequence = row.previous.sequence + 1,
           \A x \in S : x.sequence # row.sequence
    PROVE  /\ Chain(S \cup {row})
           /\ \A n \in Nat : Numbered(S, n) => row.sequence = n + 1
           /\ row.sequence \in Nat \ {0}
<1>1. PICK n \in Nat : Numbered(S, n)
  BY DEF Chain
<1>2. row.previous.sequence \in 0 .. n
  BY <1>1 DEF Numbered, Genesis
<1>3. row.sequence \notin 1 .. n
  BY <1>1 DEF Numbered
<1>4. row.sequence = n + 1
  BY <1>2, <1>3
<1>5. Numbered(S \cup {row}, n + 1)
  BY <1>1, <1>4 DEF Numbered
<1>6. \A m \in Nat : Numbered(S, m) => m = n
  <2>1. ASSUME NEW m \in Nat, Numbered(S, m)
        PROVE  m = n
    <3>1. CASE m < n
      BY <1>1, <2>1, <3>1, n \in 1 .. n, n \notin 1 .. m DEF Numbered
    <3>2. CASE n < m
      BY <1>1, <2>1, <3>2, m \in 1 .. m, m \notin 1 .. n DEF Numbered
    <3>3. QED
      BY <3>1, <3>2
  <2>2. QED
    BY <2>1
<1>7. \A x, y \in S \cup {row} : x.sequence = y.sequence => x = y
  BY DEF Chain
<1>8. IF row.sequence = 1 THEN row.previous = Genesis
      ELSE row.previous \in S /\ row.previous.sequence = row.sequence - 1
  <2>1. CASE row.previous = Genesis
    BY <1>4, <2>1 DEF Genesis
  <2>2. CASE row.previous \in S
    <3>1. row.previous.sequence \in 1 .. n
      BY <1>1, <2>2 DEF Numbered
    <3>2. row.sequence # 1 /\ row.previous.sequence = row.sequence - 1
      BY <3>1, <1>4
    <3>3. QED
      BY <3>2, <2>2
  <2>3. QED
    BY <2>1, <2>2
<1>9. Chain(S \cup {row})
  <2>1. \E m \in Nat : Numbered(S \cup {row}, m)
    BY <1>5
  <2>2. \A x \in S : IF x.sequence = 1 THEN x.previous = Genesis
                     ELSE x.previous \in S \cup {row} /\ x.previous.sequence = x.sequence - 1
    BY DEF Chain
  <2>3. QED
    BY <2>1, <2>2, <1>7, <1>8 DEF Chain
<1>10. QED
  BY <1>4, <1>6, <1>9

\* What is written after a chain has the numbers after its last one.
LEMMA Continuation ==
    ASSUME NEW S, NEW M, Chain(S), Chain(S \cup M), S \cap M = {},
           NEW n \in Nat, Numbered(S, n)
    PROVE  /\ \A x \in M : x.sequence \in Nat /\ x.sequence > n
           /\ M # {} => \E x \in M : x.sequence = n + 1
<1>1. PICK p \in Nat : Numbered(S \cup M, p)
  BY DEF Chain
<1>2. ASSUME NEW x \in M
      PROVE  x.sequence \in Nat /\ x.sequence > n
  <2>1. x.sequence \in 1 .. p
    BY <1>1 DEF Numbered
  <2>2. ASSUME x.sequence \in 1 .. n
        PROVE  FALSE
    <3>1. PICK y \in S : y.sequence = x.sequence
      BY <2>2 DEF Numbered
    <3>2. x = y
      BY <3>1 DEF Chain
    <3>3. QED
      BY <3>1, <3>2
  <2>3. QED
    BY <2>1, <2>2
<1>3. ASSUME NEW x \in M
      PROVE  \E y \in M : y.sequence = n + 1
  <2>1. n + 1 \in 1 .. p
    BY <1>1, <1>2 DEF Numbered
  <2>2. PICK y \in S \cup M : y.sequence = n + 1
    BY <1>1, <2>1 DEF Numbered
  <2>3. y \notin S
    BY <2>2 DEF Numbered
  <2>4. QED
    BY <2>2, <2>3
<1>4. QED
  BY <1>2, <1>3

\* The lookup finds the end of the chain.
LEMMA LastFound ==
    ASSUME NEW visible, NEW a,
           NEW S, S = {row \in visible : row.aggregate = a}, Chain(S)
    PROVE  /\ LastOf(visible, a) = Genesis \/ LastOf(visible, a) \in S
           /\ \A row \in S : row.sequence <= LastOf(visible, a).sequence
<1>1. CASE S = {}
  BY <1>1 DEF LastOf
<1>2. CASE S # {}
  <2>1. PICK n \in Nat : Numbered(S, n)
    BY DEF Chain
  <2>2. PICK x \in S : x.sequence = n
    <3>1. n \in 1 .. n
      BY <1>2, <2>1 DEF Numbered
    <3>2. QED
      BY <2>1, <3>1 DEF Numbered
  <2>3. \A other \in S : other.sequence <= x.sequence
    BY <2>1, <2>2 DEF Numbered
  <2>4. LastOf(visible, a) = CHOOSE row \in S : \A other \in S : other.sequence <= row.sequence
    BY <1>2 DEF LastOf
  <2>5. QED
    BY <2>2, <2>3, <2>4
<1>3. QED
  BY <1>1, <1>2
-----------------------------------------------------------------------------
(* What a transaction holds.                                                *)

LEMMA CommandTypes ==
    ASSUME NEW c \in Command
    PROVE  /\ c \in Seq(Statement)
           /\ Len(c) \in Nat
           /\ DOMAIN c = 1 .. Len(c)
           /\ \A i \in 1 .. Len(c) :
                 c[i] \in Statement /\ c[i].op \in {"lock", "append"} /\ c[i].on \in Aggregate
<1>1. c \in Seq(Statement)
  BY CommandAssumption
<1>2. \A st \in Statement : st.op \in {"lock", "append"} /\ st.on \in Aggregate
  BY DEF Statement
<1>3. Len(c) \in Nat /\ DOMAIN c = 1 .. Len(c)
  BY <1>1
<1>4. \A i \in 1 .. Len(c) : c[i] \in Statement
  BY <1>1
<1>5. QED
  BY <1>1, <1>2, <1>3, <1>4

\* Where a transaction wrote on a guarded chain, it holds the business row.
LEMMA GuardedWrite ==
    ASSUME NEW q, WroteSoFar(q), NEW a \in Aggregate, Guarded(a), Own(q, a) # {}
    PROVE  a \in Locks(q)
<1>1. PICK row \in Elements(q.rows) : row.aggregate = a
  BY DEF Own
<1>2. /\ row.statement \in 1 .. q.done
      /\ q.command[row.statement] = [op |-> "append", on |-> a]
  BY <1>1 DEF WroteSoFar
<1>3. q.command \in Command /\ q.done \in 0 .. Len(q.command)
  BY DEF WroteSoFar
<1>4. row.statement \in DOMAIN q.command
  BY <1>2, <1>3, CommandTypes
<1>5. PICK j \in 1 .. row.statement - 1 : q.command[j] = [op |-> "lock", on |-> a]
  BY <1>2, <1>3, <1>4 DEF Guarded
<1>6. j \in 1 .. q.done
  BY <1>2, <1>3, <1>5, CommandTypes
<1>7. QED
  BY <1>5, <1>6 DEF Locks

\* So it does where it is about to write.
LEMMA GuardedPosition ==
    ASSUME NEW q, WroteSoFar(q), Positioned(q)
    PROVE  /\ q.done + 1 \in 1 .. Len(q.command)
           /\ Current(q) = [op |-> "append", on |-> Current(q).on]
           /\ Current(q).on \in Aggregate
           /\ Guarded(Current(q).on) => Current(q).on \in Locks(q)
<1>1. /\ q.command \in Command
      /\ q.done \in 0 .. Len(q.command)
      /\ q.done # Len(q.command)
      /\ Current(q).op = "append"
  BY DEF WroteSoFar, Finished
<1>2. q.done + 1 \in 1 .. Len(q.command)
  BY <1>1, CommandTypes
<1>3. Current(q) \in Statement
  BY <1>1, <1>2, CommandTypes DEF Current
<1>4. Current(q) = [op |-> "append", on |-> Current(q).on] /\ Current(q).on \in Aggregate
  BY <1>1, <1>3 DEF Statement
<1>5. ASSUME Guarded(Current(q).on)
      PROVE  Current(q).on \in Locks(q)
  <2> DEFINE a == Current(q).on
  <2>1. q.done + 1 \in DOMAIN q.command /\ q.command[q.done + 1] = [op |-> "append", on |-> a]
    BY <1>1, <1>2, <1>4, CommandTypes DEF Current
  <2>2. PICK j \in 1 .. q.done + 1 - 1 : q.command[j] = [op |-> "lock", on |-> a]
    BY <1>1, <1>5, <2>1 DEF Guarded
  <2>3. j \in 1 .. q.done
    BY <1>1, <2>2, CommandTypes
  <2>4. QED
    BY <2>2, <2>3 DEF Locks
<1>6. QED
  BY <1>2, <1>4, <1>5

\* A transaction that finished its command wrote a row for each event of it.
LEMMA FinishedRows ==
    ASSUME NEW q, WroteSoFar(q), Finished(q)
    PROVE  /\ IsFiniteSet(Elements(q.rows))
           /\ Cardinality(Elements(q.rows)) = Cardinality(Appends(q.command))
           /\ \A a \in Aggregate :
                 /\ IsFiniteSet(Own(q, a))
                 /\ Cardinality(Own(q, a)) = Cardinality(Serial!Writes(q.command, a))
<1> DEFINE c == q.command
<1>1. c \in Command /\ q.done = Len(c) /\ DOMAIN c = 1 .. Len(c) /\ Len(c) \in Nat
  BY CommandTypes DEF WroteSoFar, Finished
<1>2. IsFiniteSet(DOMAIN c)
  BY <1>1, FS_Interval
<1>3. /\ IsFiniteSet(Appends(c))
      /\ \A a \in Aggregate : IsFiniteSet(Serial!Writes(c, a))
  BY <1>2, FS_Subset DEF Appends, Serial!Writes
<1>4. /\ \A row \in Elements(q.rows) :
            /\ row.statement \in DOMAIN c
            /\ c[row.statement].op = "append"
            /\ c[row.statement].on = row.aggregate
      /\ \A i \in DOMAIN c : c[i].op = "append" => \E row \in Elements(q.rows) : row.statement = i
      /\ \A row, other \in Elements(q.rows) : row.statement = other.statement => row = other
  <2>1. ASSUME NEW row \in Elements(q.rows)
        PROVE  /\ row.statement \in DOMAIN c
               /\ c[row.statement].op = "append"
               /\ c[row.statement].on = row.aggregate
    <3>1. row.statement \in 1 .. q.done /\ c[row.statement] = [op |-> "append", on |-> row.aggregate]
      BY DEF WroteSoFar
    <3>2. QED
      BY <1>1, <3>1
  <2>2. \A i \in DOMAIN c : c[i].op = "append" => \E row \in Elements(q.rows) : row.statement = i
    BY <1>1 DEF WroteSoFar
  <2>3. \A row, other \in Elements(q.rows) : row.statement = other.statement => row = other
    BY DEF WroteSoFar
  <2>4. QED
    BY <2>1, <2>2, <2>3
<1>5. IsFiniteSet(Elements(q.rows)) /\ Cardinality(Elements(q.rows)) = Cardinality(Appends(c))
  <2> DEFINE f == [row \in Elements(q.rows) |-> row.statement]
  <2>1. f \in [Elements(q.rows) -> Appends(c)]
    BY <1>4 DEF Appends
  <2>2. \A i \in Appends(c) : \E row \in Elements(q.rows) : f[row] = i
    BY <1>4 DEF Appends
  <2>3. \A row, other \in Elements(q.rows) : f[row] = f[other] => row = other
    BY <1>4
  <2> HIDE DEF f
  <2>4. QED
    BY <1>3, <2>1, <2>2, <2>3, OneForEach
<1>6. ASSUME NEW a \in Aggregate
      PROVE  IsFiniteSet(Own(q, a)) /\ Cardinality(Own(q, a)) = Cardinality(Serial!Writes(c, a))
  <2> DEFINE f == [row \in Own(q, a) |-> row.statement]
  <2>1. f \in [Own(q, a) -> Serial!Writes(c, a)]
    BY <1>4 DEF Serial!Writes, Own
  <2>2. \A i \in Serial!Writes(c, a) : \E row \in Own(q, a) : f[row] = i
    <3>1. ASSUME NEW i \in Serial!Writes(c, a)
          PROVE  \E row \in Own(q, a) : row.statement = i
      <4>1. i \in DOMAIN c /\ c[i].op = "append" /\ c[i].on = a
        BY DEF Serial!Writes
      <4>2. PICK row \in Elements(q.rows) : row.statement = i
        BY <1>4, <4>1
      <4>3. row.aggregate = a
        BY <1>4, <4>1, <4>2
      <4>4. QED
        BY <4>2, <4>3 DEF Own
    <3>2. QED
      BY <3>1
  <2>3. \A row, other \in Own(q, a) : f[row] = f[other] => row = other
    BY <1>4 DEF Own
  <2>4. IsFiniteSet(Serial!Writes(c, a))
    BY <1>3
  <2> HIDE DEF f
  <2>5. QED
    BY <2>1, <2>2, <2>3, <2>4, OneForEach
<1>7. QED
  BY <1>5, <1>6
-----------------------------------------------------------------------------
(* What a step of one thread leaves as it was.  In the following, r takes    *)
(* the step, and the transaction of no other thread changes.                *)

Only(r) == \A s \in Request \ {r} : request'[s] = request[s]

Stands(q) == IF q.phase = "idle" THEN q = Idle ELSE WroteSoFar(q)

LEMMA Updated ==
    ASSUME Shapes, UNCHANGED <<records, events>>,
           NEW r \in Request, NEW q, q \in Session(q),
           request' = [request EXCEPT ![r] = q]
    PROVE  Shapes' /\ request'[r] = q /\ Only(r)
<1>1. request'[r] = q /\ Only(r)
  BY DEF Shapes, Only
<1>2. request' = [s \in Request |-> request'[s]]
  BY DEF Shapes
<1>3. \A s \in Request : request'[s] \in Session(request'[s])
  BY <1>1 DEF Shapes, Only
<1>4. (/\ records = [k \in Key |-> records[k]]
       /\ \A k \in Key :
             records[k] \in [command : ApiCommand \cup {None}, response : {records[k].response}]
       /\ \A row \in events : RowOK(row))'
  BY DEF Shapes
<1>5. QED
  BY <1>1, <1>2, <1>3, <1>4 DEF Shapes, Session

LEMMA SameLedger ==
    ASSUME UNCHANGED <<records, events>>
    PROVE  /\ EffectIffRecorded => EffectIffRecorded'
           /\ AnswersAreDurable /\ answers' = answers => AnswersAreDurable'
           /\ AnswersAreRecorded /\ answers' = answers => AnswersAreRecorded'
  BY DEF EffectIffRecorded, AnswersAreDurable, AnswersAreRecorded, Recorded, RowsOf

LEMMA KeepsKeys ==
    ASSUME KeysAreHeld, records' = records, NEW r \in Request, Only(r),
           Reserves(request'[r]) => Reserves(request[r]) /\ request'[r].key = request[r].key
    PROVE  KeysAreHeld'
  BY DEF KeysAreHeld, Only, Recorded, Reserves

LEMMA KeepsLocks ==
    ASSUME RowLocksAreExclusive, NEW r \in Request, Only(r),
           Locks(request'[r]) \subseteq Locks(request[r])
    PROVE  RowLocksAreExclusive'
<1>1. ASSUME NEW s \in Request
      PROVE  Locks(request[s])' \subseteq Locks(request[s])
  <2>1. CASE s = r
    BY <2>1 DEF Locks
  <2>2. CASE s # r
    BY <2>2 DEF Locks, Only
  <2>3. QED
    BY <2>1, <2>2
<1>2. QED
  BY <1>1 DEF RowLocksAreExclusive

LEMMA KeepsRows ==
    ASSUME OneWriter, OwnRowsAreNew, ChainsAreWhole, events' = events,
           NEW r \in Request, Only(r),
           request'[r].rows \in {request[r].rows, <<>>}
    PROVE  OneWriter' /\ OwnRowsAreNew' /\ ChainsAreWhole'
<1>1. Elements(<<>>) = {}
  BY DEF Elements
<1>2. ASSUME NEW s \in Request
      PROVE  Elements(request'[s].rows) \in {Elements(request[s].rows), {}}
  BY <1>1 DEF Only
<1>3. ASSUME NEW s \in Request, NEW a \in Aggregate
      PROVE  /\ EventsOn(a)' = EventsOn(a)
             /\ Own(request[s], a)' \in {Own(request[s], a), {}}
             /\ Visible(request[s], a)' \in {Visible(request[s], a), EventsOn(a)}
  <2>1. EventsOn(a)' = EventsOn(a)
    BY DEF EventsOn
  <2>2. Own(request'[s], a) \in {Own(request[s], a), {}}
    BY <1>2 DEF Own
  <2>3. Own(request[s], a)' = Own(request'[s], a)
    BY DEF Own, Elements
  <2>4. QED
    BY <2>1, <2>2, <2>3 DEF Visible
<1>4. OneWriter'
  BY <1>3 DEF OneWriter
<1>5. OwnRowsAreNew'
  <2>1. \A s \in Request : Elements(request'[s].rows) \cap events' = {}
    BY <1>2 DEF OwnRowsAreNew
  <2>2. QED
    BY <2>1 DEF OwnRowsAreNew, Elements
<1>6. ChainsAreWhole'
  <2>1. \A a \in Aggregate : Chain(EventsOn(a)')
    BY <1>3 DEF ChainsAreWhole, EventsOn
  <2>2. \A a \in Aggregate, s \in Request : Chain(Visible(request[s], a)')
    BY <1>3 DEF ChainsAreWhole
  <2>3. QED
    BY <2>1, <2>2 DEF ChainsAreWhole, Chain, Numbered, Genesis
<1>7. QED
  BY <1>4, <1>5, <1>6

LEMMA OthersLast ==
    ASSUME LastStands, events' = events, NEW r \in Request, Only(r),
           NEW s \in Request, s # r, Positioned(request[s])'
    PROVE  LET q == request[s]
               a == Current(q).on
           IN  (/\ q.last = Genesis \/ q.last \in Visible(q, a)
                /\ Guarded(a) => \A row \in Visible(q, a) : row.sequence <= q.last.sequence)'
<1>1. request'[s] = request[s]
  BY DEF Only
<1>2. Positioned(request[s])
  BY <1>1 DEF Positioned
<1>3. Visible(request[s], Current(request[s]).on)' = Visible(request[s], Current(request[s]).on)
  BY <1>1 DEF Visible, EventsOn, Own, Current, Elements
<1>4. QED
  BY <1>1, <1>2, <1>3 DEF LastStands, Guarded, Genesis, Current

LEMMA KeepsLast ==
    ASSUME LastStands, events' = events, NEW r \in Request, Only(r),
           ~Positioned(request'[r])
    PROVE  LastStands'
<1>1. ASSUME NEW s \in Request, Positioned(request[s])'
      PROVE  s # r
  BY <1>1 DEF Positioned
<1>2. QED
  BY <1>1, OthersLast DEF LastStands

\* A step that writes no row changes little: what is left to show of it.
LEMMA WritesNothing ==
    ASSUME IInv, UNCHANGED <<records, events>>,
           NEW r \in Request, NEW q, q \in Session(q), Stands(q),
           request' = [request EXCEPT ![r] = q],
           q.rows \in {request[r].rows, <<>>},
           KeysAreHeld', RowLocksAreExclusive', LastStands',
           AnswersAreDurable', AnswersAreRecorded'
    PROVE  IInv'
<1>1. Shapes' /\ request'[r] = q /\ Only(r)
  BY Updated DEF IInv
<1>2. TransactionsStand'
  <2>1. \A s \in Request : Stands(request'[s])
    BY <1>1 DEF IInv, TransactionsStand, Stands, Only, In
  <2>2. QED
    BY <2>1 DEF TransactionsStand, Stands, In, Idle, Genesis, WroteSoFar, Positioned,
                Finished, Current, Elements, RowOK
<1>3. OneWriter' /\ OwnRowsAreNew' /\ ChainsAreWhole'
  BY <1>1, KeepsRows DEF IInv
<1>4. EffectIffRecorded'
  BY SameLedger DEF IInv
<1>5. QED
  BY <1>1, <1>2, <1>3, <1>4 DEF IInv

\* What a session is, when it is read or replaced.
LEMMA SessionTypes ==
    ASSUME Shapes, TransactionsStand, NEW r \in Request
    PROVE  /\ request[r] \in Session(request[r])
           /\ Stands(request[r])
           /\ ~In(r, "idle") => WroteSoFar(request[r])
           /\ Idle \in Session(Idle)
           /\ Stands(Idle)
<1>1. Idle \in Session(Idle)
  <2>1. <<>> \in Seq(Elements(Idle.rows))
    OBVIOUS
  <2>2. QED
    BY <2>1 DEF Session, Idle, Phase
<1>2. Stands(Idle)
  BY DEF Stands, Idle
<1>3. QED
  BY <1>1, <1>2 DEF Shapes, TransactionsStand, Stands, In

\* A transaction ends without effect.
LEMMA Leaves ==
    ASSUME IInv, UNCHANGED <<records, events>>, NEW r \in Request,
           request' = [request EXCEPT ![r] = Idle],
           AnswersAreDurable', AnswersAreRecorded'
    PROVE  IInv'
<1>1. Idle \in Session(Idle) /\ Stands(Idle)
  BY SessionTypes DEF IInv
<1>2. /\ Idle.rows = <<>>
      /\ Idle.key = None
      /\ Idle.phase = "idle"
      /\ Locks(Idle) = {}
  BY DEF Idle, Locks
<1>3. Only(r) /\ request'[r] = Idle
  BY <1>1, Updated DEF IInv
<1>4. KeysAreHeld'
  BY <1>2, <1>3, KeepsKeys DEF IInv, Reserves
<1>5. RowLocksAreExclusive'
  BY <1>2, <1>3, KeepsLocks DEF IInv
<1>6. LastStands'
  BY <1>2, <1>3, KeepsLast DEF IInv, Positioned
<1>7. QED
  BY <1>1, <1>2, <1>4, <1>5, <1>6, WritesNothing
-----------------------------------------------------------------------------
(* The steps that write nothing.                                            *)

LEMMA ArriveKeeps ==
    ASSUME IInv, NEW r \in Request, Arrive(r)
    PROVE  IInv'
<1>1. PICK k \in Key \cup {None}, c \in Command :
         /\ k # None => c \in ApiCommand
         /\ request' = [request EXCEPT ![r] =
               [key |-> k, command |-> c, done |-> 0, rows |-> <<>>, last |-> Genesis,
                phase |-> IF k = None THEN "running" ELSE "reserving"]]
  BY DEF Arrive
<1> DEFINE phase == IF k = None THEN "running" ELSE "reserving"
           q == [key |-> k, command |-> c, done |-> 0, rows |-> <<>>, last |-> Genesis,
                 phase |-> phase]
<1>2. phase \in {"running", "reserving"} /\ (phase = "reserving" <=> k # None)
  OBVIOUS
<1> HIDE DEF phase
<1>3. /\ q.key = k /\ q.command = c /\ q.done = 0 /\ q.rows = <<>> /\ q.phase = phase
      /\ Elements(q.rows) = {}
  BY DEF Elements
<1>4. q \in Session(q)
  <2>1. <<>> \in Seq(Elements(q.rows))
    OBVIOUS
  <2>2. QED
    BY <1>2, <2>1 DEF Session, Phase
<1>5. request' = [request EXCEPT ![r] = q]
  BY <1>1 DEF phase
<1> HIDE DEF q
<1>6. Stands(q)
  <2>1. 0 \in 0 .. Len(c)
    BY CommandTypes
  <2>2. WroteSoFar(q)
    BY <1>1, <1>2, <1>3, <2>1 DEF WroteSoFar, Positioned
  <2>3. QED
    BY <1>2, <1>3, <2>2 DEF Stands
<1>7. UNCHANGED <<records, events, answers>>
  BY DEF Arrive
<1>8. Only(r) /\ request'[r] = q
  BY <1>4, <1>5, <1>7, Updated DEF IInv
<1>9. KeysAreHeld'
  BY <1>2, <1>3, <1>7, <1>8, KeepsKeys DEF IInv, Reserves
<1>10. RowLocksAreExclusive'
  <2>1. Locks(q) = {}
    BY <1>3 DEF Locks
  <2>2. QED
    BY <1>8, <2>1, KeepsLocks DEF IInv
<1>11. LastStands'
  BY <1>2, <1>3, <1>7, <1>8, KeepsLast DEF IInv, Positioned
<1>12. AnswersAreDurable' /\ AnswersAreRecorded'
  BY <1>7, SameLedger DEF IInv
<1>13. QED
  BY <1>3, <1>4, <1>5, <1>6, <1>7, <1>9, <1>10, <1>11, <1>12, WritesNothing

\* A change of what the thread is about to do.
LEMMA PhaseChanges ==
    ASSUME IInv, NEW r \in Request, ~In(r, "idle"),
           NEW phase \in {"running", "peeked", "inserting"}, NEW last,
           phase # "running" =>
               ~Finished(request[r]) /\ Current(request[r]).op = "append",
           NEW q,
           q = [key |-> request[r].key, command |-> request[r].command,
                done |-> request[r].done, rows |-> request[r].rows,
                last |-> last, phase |-> phase]
    PROVE  /\ q \in Session(q)
           /\ Stands(q)
           /\ q.phase = phase
           /\ q.last = last
           /\ q.key = request[r].key
           /\ q.rows = request[r].rows
           /\ Locks(q) = Locks(request[r])
           /\ Current(q) = Current(request[r])
<1>1. request[r] \in Session(request[r]) /\ WroteSoFar(request[r])
  BY SessionTypes DEF IInv
<1>2. /\ q.phase = phase
      /\ q.last = last
      /\ q.key = request[r].key
      /\ q.command = request[r].command
      /\ q.done = request[r].done
      /\ q.rows = request[r].rows
  OBVIOUS
<1>3. q \in Session(q)
  <2>1. /\ request[r].key \in Key \cup {None}
        /\ request[r].command \in Command \cup {<<>>}
        /\ request[r].done \in Nat
        /\ request[r].rows \in Seq(Elements(q.rows))
    BY <1>1, <1>2 DEF Session
  <2>2. phase \in Phase
    BY DEF Phase
  <2>3. QED
    BY <1>2, <2>1, <2>2 DEF Session
<1>4. WroteSoFar(q)
  <2>1. Finished(q) = Finished(request[r]) /\ Current(q) = Current(request[r])
    BY <1>2 DEF Finished, Current
  <2>2. QED
    BY <1>1, <1>2, <2>1 DEF WroteSoFar, Positioned
<1>5. Stands(q)
  BY <1>2, <1>4 DEF Stands
<1>6. Locks(q) = Locks(request[r]) /\ Current(q) = Current(request[r])
  BY <1>2 DEF Locks, Current
<1>7. QED
  BY <1>2, <1>3, <1>5, <1>6

LEMMA AcquireKeeps ==
    ASSUME IInv, NEW r \in Request, Acquire(r)
    PROVE  IInv'
<1> DEFINE q == [request[r] EXCEPT !.phase = "running"]
<1>1. /\ request[r].phase = "reserving"
      /\ Blockers(r) = {}
      /\ ~Recorded(request[r].key)
      /\ request' = [request EXCEPT ![r].phase = "running"]
      /\ UNCHANGED <<records, events, answers>>
  BY DEF Acquire, Unblocked, In
<1>2. request[r] \in Session(request[r]) /\ WroteSoFar(request[r])
  BY <1>1, SessionTypes DEF IInv, In
<1>3. request' = [request EXCEPT ![r] = q]
  BY <1>1, <1>2 DEF Session
<1>4. /\ q \in Session(q)
      /\ Stands(q)
      /\ q.phase = "running"
      /\ q.key = request[r].key
      /\ q.rows = request[r].rows
      /\ Locks(q) = Locks(request[r])
  <2>1. q = [key |-> request[r].key, command |-> request[r].command,
             done |-> request[r].done, rows |-> request[r].rows,
             last |-> request[r].last, phase |-> "running"]
    BY <1>2 DEF Session
  <2> HIDE DEF q
  <2>2. QED
    BY <1>1, <2>1, PhaseChanges DEF In
<1> HIDE DEF q
<1>5. Only(r) /\ request'[r] = q
  BY <1>1, <1>3, <1>4, Updated DEF IInv
<1>6. KeysAreHeld'
  <2>1. \A s \in Request \ {r} : Reserves(request[s]) => request[s].key # request[r].key
    <3>1. ASSUME NEW s \in Request \ {r}, Reserves(request[s]), request[s].key = request[r].key
          PROVE  s \in Blockers(r)
      <4>1. ~In(s, "idle")
        BY <3>1, SessionTypes DEF IInv, Stands, Reserves, Idle, In
      <4>2. QED
        BY <1>1, <3>1, <4>1 DEF Blockers, Blocks, Active
    <3>2. QED
      BY <1>1, <3>1
  <2>2. QED
    BY <1>1, <1>4, <1>5, <2>1 DEF IInv, KeysAreHeld, Only, Reserves, Recorded
<1>7. RowLocksAreExclusive'
  BY <1>4, <1>5, KeepsLocks DEF IInv
<1>8. LastStands'
  BY <1>1, <1>4, <1>5, KeepsLast DEF IInv, Positioned
<1>9. AnswersAreDurable' /\ AnswersAreRecorded'
  BY <1>1, SameLedger DEF IInv
<1>10. QED
  BY <1>1, <1>3, <1>4, <1>6, <1>7, <1>8, <1>9, WritesNothing

\* The thread has looked up the last row of the chain it appends to next.
LEMMA PositionKeeps ==
    ASSUME IInv, NEW r \in Request, request[r].phase \in Phase \ {"idle", "reserving"},
           NEW q, q \in Session(q), Stands(q),
           q.phase \in {"peeked", "inserting"},
           q.key = request[r].key,
           q.rows = request[r].rows,
           Locks(q) = Locks(request[r]),
           q.last = Genesis \/ q.last \in Visible(q, Current(q).on),
           Guarded(Current(q).on) =>
               \A row \in Visible(q, Current(q).on) : row.sequence <= q.last.sequence,
           request' = [request EXCEPT ![r] = q],
           UNCHANGED <<records, events, answers>>
    PROVE  IInv'
<1>1. Reserves(request[r]) <=> request[r].key # None
  BY DEF Reserves
<1>2. Only(r) /\ request'[r] = q
  BY Updated DEF IInv
<1>3. KeysAreHeld'
  BY <1>1, <1>2, KeepsKeys DEF IInv, Reserves
<1>4. RowLocksAreExclusive'
  BY <1>2, KeepsLocks DEF IInv
<1>5. LastStands'
  <2> DEFINE a == Current(q).on
  <2>1. Visible(request[r], Current(request[r]).on)' = Visible(q, a)
    BY <1>2 DEF Visible, EventsOn, Own, Elements, Current
  <2>2. /\ Guarded(Current(request[r]).on)' = Guarded(a)
        /\ request'[r].last = q.last
    BY <1>2 DEF Guarded, Current
  <2>3. (LET p == request[r]
             b == Current(p).on
         IN  /\ p.last = Genesis \/ p.last \in Visible(p, b)
             /\ Guarded(b) => \A row \in Visible(p, b) : row.sequence <= p.last.sequence)'
    BY <2>1, <2>2 DEF Genesis
  <2>4. QED
    BY <1>2, <2>3, OthersLast DEF IInv, LastStands
<1>6. AnswersAreDurable' /\ AnswersAreRecorded'
  BY SameLedger DEF IInv
<1>7. QED
  BY <1>3, <1>4, <1>5, <1>6, WritesNothing

LEMMA PeekKeeps ==
    ASSUME IInv, NEW r \in Request, Peek(r)
    PROVE  IInv'
<1> DEFINE a == Current(request[r]).on
           visible == events \cup Elements(request[r].rows)
           last == LastOf(visible, a)
           phase == IF last = Genesis THEN "inserting" ELSE "peeked"
           q == [key |-> request[r].key, command |-> request[r].command,
                 done |-> request[r].done, rows |-> request[r].rows,
                 last |-> last, phase |-> phase]
<1>1. /\ request[r].phase = "running"
      /\ ~Finished(request[r])
      /\ Current(request[r]).op = "append"
      /\ UNCHANGED <<records, events, answers>>
      /\ request' = [request EXCEPT ![r] =
                       [request[r] EXCEPT !.phase = phase, !.last = last]]
  <2>1. request' = [request EXCEPT ![r] =
                       [request[r] EXCEPT !.phase = phase, !.last = last]]
    BY DEF Peek, IInv, Shapes
  <2>2. QED
    BY <2>1 DEF Peek, In, At
<1>2. request[r] \in Session(request[r]) /\ WroteSoFar(request[r])
  BY <1>1, SessionTypes DEF IInv, In
<1>3. phase \in {"peeked", "inserting"}
  OBVIOUS
<1>4. request' = [request EXCEPT ![r] = q]
  <2> HIDE DEF phase, last
  <2> DEFINE moved == [request[r] EXCEPT !.phase = phase]
  <2>1. moved = [key |-> request[r].key, command |-> request[r].command,
                 done |-> request[r].done, rows |-> request[r].rows,
                 last |-> request[r].last, phase |-> phase]
    BY <1>2 DEF Session
  <2>2. [request[r] EXCEPT !.phase = phase, !.last = last] = [moved EXCEPT !.last = last]
    OBVIOUS
  <2> HIDE DEF moved
  <2>3. [moved EXCEPT !.last = last] = q
    BY <2>1
  <2>4. QED
    BY <1>1, <2>2, <2>3
<1>5. a \in Aggregate
  <2>1. request[r].done + 1 \in 1 .. Len(request[r].command) /\ request[r].command \in Command
    BY <1>1, <1>2, CommandTypes DEF WroteSoFar, Finished
  <2>2. QED
    BY <2>1, CommandTypes DEF Current
<1>6. Visible(request[r], a) = {row \in visible : row.aggregate = a}
  BY DEF Visible, EventsOn, Own
<1>7. /\ last = Genesis \/ last \in Visible(request[r], a)
      /\ \A row \in Visible(request[r], a) : row.sequence <= last.sequence
  <2>1. Chain(Visible(request[r], a))
    BY <1>5 DEF IInv, ChainsAreWhole
  <2> HIDE DEF visible, a
  <2>2. QED
    BY <1>6, <2>1, LastFound
<1>8. request[r].phase \in Phase \ {"idle", "reserving"}
  BY <1>1 DEF Phase
<1> HIDE DEF phase, last
<1>9. /\ q \in Session(q)
      /\ Stands(q)
      /\ q.phase = phase
      /\ q.last = last
      /\ q.key = request[r].key
      /\ q.rows = request[r].rows
      /\ Locks(q) = Locks(request[r])
      /\ Current(q) = Current(request[r])
  BY <1>1, <1>3, PhaseChanges DEF In
<1>10. Visible(q, a) = Visible(request[r], a)
  BY <1>9 DEF Visible, Own
<1> HIDE DEF q
<1>11. QED
  BY <1>1, <1>3, <1>4, <1>7, <1>8, <1>9, <1>10, PositionKeeps

LEMMA LockLastKeeps ==
    ASSUME IInv, NEW r \in Request, LockLast(r)
    PROVE  IInv'
<1> DEFINE last == request[r].last
           q == [key |-> request[r].key, command |-> request[r].command,
                 done |-> request[r].done, rows |-> request[r].rows,
                 last |-> last, phase |-> "inserting"]
<1>1. /\ request[r].phase = "peeked"
      /\ UNCHANGED <<records, events, answers>>
      /\ request' = [request EXCEPT ![r].phase = "inserting"]
  BY DEF LockLast, Unblocked, In
<1>2. request[r] \in Session(request[r]) /\ WroteSoFar(request[r])
  BY <1>1, SessionTypes DEF IInv, In
<1>3. request' = [request EXCEPT ![r] = q]
  <2>1. [request[r] EXCEPT !.phase = "inserting"] = q
    BY <1>2 DEF Session
  <2>2. request' = [request EXCEPT ![r] = [request[r] EXCEPT !.phase = "inserting"]]
    BY <1>1
  <2>3. QED
    BY <2>1, <2>2
<1>4. /\ ~Finished(request[r])
      /\ Current(request[r]).op = "append"
      /\ request[r].phase \in Phase \ {"idle", "reserving"}
  BY <1>1, <1>2 DEF WroteSoFar, Positioned, Phase
<1>5. /\ last = Genesis \/ last \in Visible(request[r], Current(request[r]).on)
      /\ Guarded(Current(request[r]).on) =>
            \A row \in Visible(request[r], Current(request[r]).on) :
                row.sequence <= last.sequence
  BY <1>1 DEF IInv, LastStands, Positioned
<1>6. /\ q \in Session(q)
      /\ Stands(q)
      /\ q.phase = "inserting"
      /\ q.last = last
      /\ q.key = request[r].key
      /\ q.rows = request[r].rows
      /\ Locks(q) = Locks(request[r])
      /\ Current(q) = Current(request[r])
  BY <1>1, <1>4, PhaseChanges DEF In
<1>7. Visible(q, Current(q).on) = Visible(request[r], Current(request[r]).on)
  BY <1>6 DEF Visible, Own
<1> HIDE DEF q
<1>8. QED
  BY <1>1, <1>3, <1>4, <1>5, <1>6, <1>7, PositionKeeps

LEMMA LockRowKeeps ==
    ASSUME IInv, NEW r \in Request, LockRow(r)
    PROVE  IInv'
<1> DEFINE p == request[r]
           q == [p EXCEPT !.done = @ + 1]
<1>1. /\ p.phase = "running"
      /\ Blockers(r) = {}
      /\ ~Finished(p)
      /\ Current(p).op = "lock"
      /\ UNCHANGED <<records, events, answers>>
      /\ request' = [request EXCEPT ![r].done = @ + 1]
  BY DEF LockRow, Unblocked, In, At
<1>2. p \in Session(p) /\ WroteSoFar(p)
  BY <1>1, SessionTypes DEF IInv, In
<1>3. q = [key |-> p.key, command |-> p.command, done |-> p.done + 1, rows |-> p.rows,
           last |-> p.last, phase |-> p.phase]
  BY <1>2 DEF Session
<1>4. request' = [request EXCEPT ![r] = q]
  BY <1>1
<1> HIDE DEF q
<1>5. /\ q.key = p.key
      /\ q.command = p.command
      /\ q.done = p.done + 1
      /\ q.rows = p.rows
      /\ q.last = p.last
      /\ q.phase = p.phase
  BY <1>3
<1>6. /\ p.command \in Command
      /\ p.done + 1 \in 1 .. Len(p.command)
      /\ p.done \in Nat
      /\ p.command[p.done + 1].op = "lock"
  BY <1>1, <1>2, CommandTypes DEF WroteSoFar, Finished, Current
<1>7. q \in Session(q)
  <2>1. /\ p.key \in Key \cup {None}
        /\ p.command \in Command \cup {<<>>}
        /\ p.done + 1 \in Nat
        /\ p.rows \in Seq(Elements(q.rows))
        /\ p.phase \in Phase
    BY <1>2, <1>5 DEF Session
  <2>2. QED
    BY <1>3, <1>5, <2>1 DEF Session
<1>8. Stands(q)
  <2>1. \A row \in Elements(q.rows) :
           /\ RowOK(row)
           /\ row.key = q.key
           /\ row.statement \in 1 .. q.done
           /\ q.command[row.statement] = [op |-> "append", on |-> row.aggregate]
    <3>1. \A row \in Elements(p.rows) :
             /\ RowOK(row)
             /\ row.key = p.key
             /\ row.statement \in 1 .. p.done
             /\ p.command[row.statement] = [op |-> "append", on |-> row.aggregate]
      BY <1>2 DEF WroteSoFar
    <3>2. 1 .. p.done \subseteq 1 .. p.done + 1
      BY <1>6
    <3>3. QED
      BY <1>5, <3>1, <3>2
  <2>2. \A i \in 1 .. q.done :
           q.command[i].op = "append" => \E row \in Elements(q.rows) : row.statement = i
    BY <1>2, <1>5, <1>6 DEF WroteSoFar
  <2>3. \A row, other \in Elements(q.rows) :
           row.statement = other.statement => row = other
    BY <1>2, <1>5 DEF WroteSoFar
  <2>4. /\ q.command \in Command
        /\ q.done \in 0 .. Len(q.command)
        /\ q.key # None => q.command \in ApiCommand
        /\ q.phase = "running"
    BY <1>1, <1>2, <1>5, <1>6, CommandTypes DEF WroteSoFar
  <2>5. QED
    BY <2>1, <2>2, <2>3, <2>4 DEF WroteSoFar, Stands, Positioned
<1>9. Only(r) /\ request'[r] = q
  BY <1>1, <1>4, <1>7, Updated DEF IInv
<1>10. KeysAreHeld'
  BY <1>1, <1>5, <1>9, KeepsKeys DEF IInv, Reserves
<1>11. RowLocksAreExclusive'
  <2>1. Locks(q) = Locks(p) \cup {Current(p).on}
    <3>1. 1 .. q.done = (1 .. p.done) \cup {p.done + 1}
      BY <1>5, <1>6
    <3>2. QED
      BY <1>1, <1>5, <1>6, <3>1 DEF Locks, Current
  <2>2. \A s \in Request \ {r} : Current(p).on \notin Locks(request[s])
    <3>1. ASSUME NEW s \in Request \ {r}, Current(p).on \in Locks(request[s])
          PROVE  s \in Blockers(r)
      <4>1. ~In(s, "idle")
        <5>1. Locks(Idle) = {}
          BY DEF Locks, Idle
        <5>2. QED
          BY <3>1, <5>1, SessionTypes DEF IInv, Stands, In
      <4>2. QED
        BY <1>1, <3>1, <4>1 DEF Blockers, Blocks, Active
    <3>2. QED
      BY <1>1, <3>1
  <2>3. \A s \in Request : Locks(request[s])' = IF s = r THEN Locks(q) ELSE Locks(request[s])
    BY <1>9 DEF Locks, Only
  <2>4. QED
    BY <2>1, <2>2, <2>3 DEF IInv, RowLocksAreExclusive
<1>12. LastStands'
  BY <1>1, <1>5, <1>9, KeepsLast DEF IInv, Positioned
<1>13. AnswersAreDurable' /\ AnswersAreRecorded'
  BY <1>1, SameLedger DEF IInv
<1>14. QED
  BY <1>1, <1>4, <1>5, <1>7, <1>8, <1>10, <1>11, <1>12, <1>13, WritesNothing

\* The stored response is answered again.
LEMMA AnswerRecordedKeeps ==
    ASSUME IInv, NEW r \in Request, AnswerRecorded(r)
    PROVE  IInv'
<1> DEFINE p == request[r]
           answer == [key |-> p.key, command |-> p.command,
                      response |-> records[p.key].response]
<1>1. /\ p.phase = "reserving"
      /\ Recorded(p.key)
      /\ answers' = IF SameRequest(p) THEN answers \cup {answer} ELSE answers
      /\ request' = [request EXCEPT ![r] = Idle]
      /\ UNCHANGED <<records, events>>
  BY DEF AnswerRecorded, Unblocked, In
<1>2. p.key \in Key
  BY <1>1, SessionTypes DEF IInv, WroteSoFar, Session, In
<1>3. records[p.key] = [command |-> records[p.key].command, response |-> records[p.key].response]
  BY <1>2 DEF IInv, Shapes
<1>4. SameRequest(p) => records[answer.key] = [command |-> answer.command, response |-> answer.response]
  BY <1>3 DEF SameRequest
<1>5. AnswersAreDurable'
  BY <1>1, <1>4 DEF IInv, AnswersAreDurable
<1>6. AnswersAreRecorded'
  BY <1>1, <1>2 DEF IInv, AnswersAreRecorded, Recorded
<1>7. QED
  BY <1>1, <1>5, <1>6, Leaves

\* The transaction is rolled back, whatever the cause.
LEMMA RollBackKeeps ==
    ASSUME IInv, NEW r \in Request, Collide(r) \/ RollBack(r) \/ DeadlockVictim(r)
    PROVE  IInv'
<1>1. /\ request' = [request EXCEPT ![r] = Idle]
      /\ UNCHANGED <<records, events, answers>>
  BY DEF Collide, RollBack, DeadlockVictim
<1>2. AnswersAreDurable' /\ AnswersAreRecorded'
  BY <1>1, SameLedger DEF IInv
<1>3. QED
  BY <1>1, <1>2, Leaves
-----------------------------------------------------------------------------
(* An audit event is written: where the lookup and the locks left a chance   *)
(* of a fork, the unique constraint does not.                                *)

LEMMA Appended ==
    ASSUME NEW q, q \in Session(q), NEW row
    PROVE  [q EXCEPT !.phase = "running", !.done = q.done + 1, !.last = Genesis,
                     !.rows = Append(q.rows, row)] =
             [key |-> q.key, command |-> q.command, done |-> q.done + 1,
              rows |-> Append(q.rows, row), last |-> Genesis, phase |-> "running"]
<1> DEFINE q1 == [q EXCEPT !.phase = "running"]
           q2 == [q1 EXCEPT !.done = q.done + 1]
           q3 == [q2 EXCEPT !.last = Genesis]
<1>1. q1 = [key |-> q.key, command |-> q.command, done |-> q.done,
            rows |-> q.rows, last |-> q.last, phase |-> "running"]
  BY DEF Session
<1>2. [q EXCEPT !.phase = "running", !.done = q.done + 1, !.last = Genesis,
                !.rows = Append(q.rows, row)] = [q3 EXCEPT !.rows = Append(q.rows, row)]
  OBVIOUS
<1> HIDE DEF q1
<1>3. q2 = [key |-> q.key, command |-> q.command, done |-> q.done + 1,
            rows |-> q.rows, last |-> q.last, phase |-> "running"]
  BY <1>1
<1> HIDE DEF q2
<1>4. q3 = [key |-> q.key, command |-> q.command, done |-> q.done + 1,
            rows |-> q.rows, last |-> Genesis, phase |-> "running"]
  BY <1>3
<1> HIDE DEF q3
<1>5. [q3 EXCEPT !.rows = Append(q.rows, row)] =
        [key |-> q.key, command |-> q.command, done |-> q.done + 1,
         rows |-> Append(q.rows, row), last |-> Genesis, phase |-> "running"]
  BY <1>4
<1>6. QED
  BY <1>2, <1>5

\* The new row ends the chain that its thread sees.
LEMMA NewRowFits ==
    ASSUME IInv, NEW r \in Request, request[r].phase = "inserting",
           ~SlotTaken(request[r])
    PROVE  LET row == NewRow(request[r])
               a == Current(request[r]).on
           IN  /\ a \in Aggregate
               /\ row.aggregate = a
               /\ row.key = request[r].key
               /\ row.statement = request[r].done + 1
               /\ RowOK(row)
               /\ \A x \in Visible(request[r], a) : x.sequence # row.sequence
               /\ Chain(Visible(request[r], a) \cup {row})
               /\ \A n \in Nat : Numbered(Visible(request[r], a), n) => row.sequence = n + 1
<1> DEFINE q == request[r]
           row == NewRow(q)
           a == Current(q).on
<1>1. /\ row.aggregate = a
      /\ row.sequence = q.last.sequence + 1
      /\ row.key = q.key
      /\ row.statement = q.done + 1
      /\ row.previous = q.last
      /\ DOMAIN row = {"aggregate", "sequence", "key", "statement", "previous"}
  BY DEF NewRow
<1>2. q \in Session(q) /\ WroteSoFar(q) /\ Positioned(q)
  BY SessionTypes DEF IInv, In, Positioned
<1>3. a \in Aggregate
  BY <1>2, GuardedPosition
<1>4. q.last = Genesis \/ q.last \in Visible(q, a)
  BY <1>2 DEF IInv, LastStands
<1>5. \A x \in Visible(q, a) : x.sequence # row.sequence
  BY <1>1 DEF SlotTaken, SameSlot, Visible, EventsOn, Own
<1>6. Chain(Visible(q, a))
  BY <1>3 DEF IInv, ChainsAreWhole
<1>7. /\ Chain(Visible(q, a) \cup {row})
      /\ \A n \in Nat : Numbered(Visible(q, a), n) => row.sequence = n + 1
      /\ row.sequence \in Nat \ {0}
  BY <1>1, <1>4, <1>5, <1>6, ChainExtends
<1>8. q.key \in Key \cup {None}
  BY <1>2 DEF Session
<1>9. RowOK(row)
  BY <1>1, <1>3, <1>7, <1>8 DEF RowOK
<1>10. QED
  BY <1>1, <1>3, <1>5, <1>7, <1>9

\* Who may append to the chain of a is its only writer: another one has an
\* uncommitted row with the number that is next, and r would wait for it.
LEMMA OthersDidNotWrite ==
    ASSUME IInv, NEW r \in Request, request[r].phase = "inserting",
           ~SlotTaken(request[r]), Blockers(r) = {},
           NEW s \in Request, s # r
    PROVE  Own(request[s], Current(request[r]).on) = {}
<1> DEFINE a == Current(request[r]).on
           row == NewRow(request[r])
<1>1. SUFFICES ASSUME Own(request[s], a) # {}
               PROVE  FALSE
  OBVIOUS
<1>2. /\ a \in Aggregate
      /\ row.aggregate = a
      /\ \A n \in Nat : Numbered(Visible(request[r], a), n) => row.sequence = n + 1
  BY NewRowFits
<1>3. Own(request[r], a) = {}
  BY <1>1, <1>2 DEF IInv, OneWriter
<1>4. Visible(request[r], a) = EventsOn(a)
  BY <1>3 DEF Visible
<1>5. PICK n \in Nat : Numbered(EventsOn(a), n)
  BY <1>2 DEF IInv, ChainsAreWhole, Chain
<1>6. row.sequence = n + 1
  BY <1>2, <1>4, <1>5
<1>7. /\ Chain(EventsOn(a))
      /\ Chain(EventsOn(a) \cup Own(request[s], a))
      /\ EventsOn(a) \cap Own(request[s], a) = {}
  BY <1>2 DEF IInv, ChainsAreWhole, Visible, OwnRowsAreNew, EventsOn, Own
<1>8. PICK x \in Own(request[s], a) : x.sequence = n + 1
  BY <1>1, <1>5, <1>7, Continuation
<1>9. SameSlot(x, row) /\ x \in Elements(request[s].rows)
  BY <1>2, <1>6, <1>8 DEF SameSlot, Own
<1>10. ~In(s, "idle")
  BY <1>9, SessionTypes DEF IInv, Stands, Idle, In, Elements
<1>11. Blocks(request[s], request[r])
  BY <1>9 DEF Blocks
<1>12. QED
  BY <1>10, <1>11 DEF Blockers, Active

LEMMA AppendEventKeeps ==
    ASSUME IInv, NEW r \in Request, AppendEvent(r)
    PROVE  IInv'
<1> DEFINE p == request[r]
           a == Current(p).on
           q == [key |-> p.key, command |-> p.command, done |-> p.done + 1,
                 rows |-> Append(p.rows, NewRow(p)), last |-> Genesis, phase |-> "running"]
<1>1. /\ p.phase = "inserting"
      /\ Blockers(r) = {}
      /\ ~SlotTaken(p)
      /\ UNCHANGED <<records, events, answers>>
      /\ request' = [request EXCEPT ![r] = [p EXCEPT !.phase = "running",
                        !.done = p.done + 1, !.last = Genesis,
                        !.rows = Append(p.rows, NewRow(p))]]
  <2>1. request' = [request EXCEPT ![r] = [p EXCEPT !.phase = "running",
                      !.done = p.done + 1, !.last = Genesis,
                      !.rows = Append(p.rows, NewRow(p))]]
    BY DEF AppendEvent
  <2>2. QED
    BY <2>1 DEF AppendEvent, Unblocked, In
<1>2. p \in Session(p) /\ WroteSoFar(p) /\ Positioned(p)
  BY <1>1, SessionTypes DEF IInv, In, Positioned
<1>3. request' = [request EXCEPT ![r] = q]
  BY <1>1, <1>2, Appended
<1> DEFINE row == NewRow(p)
<1>4. /\ a \in Aggregate
      /\ row.aggregate = a
      /\ row.key = p.key
      /\ row.statement = p.done + 1
      /\ RowOK(row)
      /\ \A x \in Visible(p, a) : x.sequence # row.sequence
      /\ Chain(Visible(p, a) \cup {row})
  BY <1>1, NewRowFits
<1>5. /\ q.key = p.key
      /\ q.command = p.command
      /\ q.done = p.done + 1
      /\ q.rows = Append(p.rows, row)
      /\ q.last = Genesis
      /\ q.phase = "running"
  OBVIOUS
<1> HIDE DEF row
<1>6. Elements(q.rows) = Elements(p.rows) \cup {row} /\ q.rows \in Seq(Elements(q.rows))
  BY <1>2, <1>5, AppendedElements DEF Session
<1>7. q \in Session(q)
  <2>1. /\ p.key \in Key \cup {None}
        /\ p.command \in Command \cup {<<>>}
        /\ p.done + 1 \in Nat
    BY <1>2 DEF Session
  <2>2. "running" \in Phase
    BY DEF Phase
  <2>3. QED
    BY <1>5, <1>6, <2>1, <2>2 DEF Session
<1> HIDE DEF q
<1>8. /\ p.command \in Command
      /\ p.done \in Nat
      /\ p.done + 1 \in 1 .. Len(p.command)
      /\ Len(p.command) \in Nat
      /\ p.command[p.done + 1] = [op |-> "append", on |-> a]
      /\ 1 .. p.done + 1 = (1 .. p.done) \cup {p.done + 1}
  BY <1>2, GuardedPosition, CommandTypes DEF WroteSoFar, Current
<1>9. Stands(q)
  <2>1. /\ \A x \in Elements(p.rows) :
              /\ RowOK(x)
              /\ x.key = p.key
              /\ x.statement \in 1 .. p.done
              /\ p.command[x.statement] = [op |-> "append", on |-> x.aggregate]
        /\ \A i \in 1 .. p.done :
              p.command[i].op = "append" => \E x \in Elements(p.rows) : x.statement = i
        /\ \A x, other \in Elements(p.rows) : x.statement = other.statement => x = other
        /\ p.key # None => p.command \in ApiCommand
    BY <1>2 DEF WroteSoFar
  <2>2. \A x \in Elements(q.rows) :
           /\ RowOK(x)
           /\ x.key = q.key
           /\ x.statement \in 1 .. q.done
           /\ q.command[x.statement] = [op |-> "append", on |-> x.aggregate]
    BY <1>4, <1>5, <1>6, <1>8, <2>1
  <2>3. \A i \in 1 .. q.done :
           q.command[i].op = "append" => \E x \in Elements(q.rows) : x.statement = i
    BY <1>4, <1>5, <1>6, <1>8, <2>1
  <2>4. \A x, other \in Elements(q.rows) : x.statement = other.statement => x = other
    <3>1. \A x \in Elements(p.rows) : x.statement \in 1 .. p.done
      BY <2>1
    <3>2. p.done + 1 \notin 1 .. p.done
      BY <1>8
    <3>3. QED
      BY <1>4, <1>6, <2>1, <3>1, <3>2
  <2>5. q.done \in 0 .. Len(q.command)
    BY <1>5, <1>8
  <2>6. QED
    BY <1>5, <1>8, <2>1, <2>2, <2>3, <2>4, <2>5 DEF Stands, WroteSoFar, Positioned
<1>10. Shapes' /\ Only(r) /\ request'[r] = q
  BY <1>1, <1>3, <1>7, Updated DEF IInv
<1>11. TransactionsStand'
  <2>1. \A s \in Request : Stands(request'[s])
    BY <1>9, <1>10 DEF IInv, TransactionsStand, Stands, Only, In
  <2>2. QED
    BY <2>1 DEF TransactionsStand, Stands, In, Idle, Genesis, WroteSoFar, Positioned,
                Finished, Current, Elements, RowOK
<1>12. KeysAreHeld'
  BY <1>1, <1>5, <1>10, KeepsKeys DEF IInv, Reserves
<1>13. RowLocksAreExclusive'
  <2>1. Locks(q) \subseteq Locks(p)
    BY <1>5, <1>8 DEF Locks
  <2>2. QED
    BY <1>10, <2>1, KeepsLocks DEF IInv
<1>14. LastStands'
  BY <1>1, <1>5, <1>10, KeepsLast DEF IInv, Positioned
<1>15. /\ Own(q, a) = Own(p, a) \cup {row}
       /\ \A b \in Aggregate \ {a} : Own(q, b) = Own(p, b)
  BY <1>4, <1>6 DEF Own
<1>16. \A s \in Request, b \in Aggregate :
          /\ EventsOn(b)' = EventsOn(b)
          /\ Own(request[s], b)' = IF s = r THEN Own(q, b) ELSE Own(request[s], b)
  <2>1. \A b \in Aggregate : EventsOn(b)' = EventsOn(b)
    BY <1>1 DEF EventsOn
  <2>2. \A s \in Request, b \in Aggregate : Own(request[s], b)' = Own(request'[s], b)
    BY DEF Own, Elements
  <2>3. QED
    BY <1>10, <2>1, <2>2 DEF Only
<1>17. OneWriter'
  <2>1. \A s \in Request \ {r} : Own(request[s], a) = {}
    BY <1>1, OthersDidNotWrite
  <2>2. QED
    BY <1>15, <1>16, <2>1 DEF IInv, OneWriter
<1>18. OwnRowsAreNew'
  <2>1. row \notin events
    BY <1>4 DEF Visible, EventsOn
  <2>2. \A s \in Request : Elements(request'[s].rows) \cap events' = {}
    BY <1>1, <1>6, <1>10, <2>1 DEF IInv, OwnRowsAreNew, Only
  <2>3. QED
    BY <2>2 DEF OwnRowsAreNew, Elements
<1>19. ChainsAreWhole'
  <2>1. \A b \in Aggregate : Chain(EventsOn(b)')
    BY <1>1 DEF IInv, ChainsAreWhole, EventsOn
  <2>2. ASSUME NEW s \in Request, NEW b \in Aggregate
        PROVE  Chain(Visible(request[s], b)')
    <3>1. CASE s = r /\ b = a
      <4>1. Visible(request[s], b)' = Visible(p, a) \cup {row}
        BY <1>15, <1>16, <3>1 DEF Visible
      <4>2. QED
        BY <1>4, <4>1
    <3>2. CASE ~(s = r /\ b = a)
      <4>1. Visible(request[s], b)' = Visible(request[s], b)
        BY <1>15, <1>16, <3>2 DEF Visible
      <4>2. QED
        BY <4>1 DEF IInv, ChainsAreWhole
    <3>3. QED
      BY <3>1, <3>2
  <2>3. QED
    BY <2>1, <2>2 DEF ChainsAreWhole, Chain, Numbered, Genesis
<1>20. EffectIffRecorded' /\ AnswersAreDurable' /\ AnswersAreRecorded'
  BY <1>1, SameLedger DEF IInv
<1>21. QED
  BY <1>10, <1>11, <1>12, <1>13, <1>14, <1>17, <1>18, <1>19, <1>20 DEF IInv
-----------------------------------------------------------------------------
(* A transaction commits.                                                   *)

\* What changes, row by row and key by key.
LEMMA CommitChanges ==
    ASSUME IInv, NEW r \in Request, Commit(r)
    PROVE  LET p == request[r]
           IN  /\ ~In(r, "idle")
               /\ Reserves(p) <=> p.key # None
               /\ p \in Session(p)
               /\ WroteSoFar(p)
               /\ Finished(p)
               /\ p.key \in Key \cup {None}
               /\ p.key # None => ~Recorded(p.key) /\ p.command \in ApiCommand
               /\ request' = [request EXCEPT ![r] = Idle]
               /\ request'[r] = Idle
               /\ Only(r)
               /\ events' = events \cup Elements(p.rows)
               /\ \A k \in Key :
                     records'[k] = IF k = p.key THEN [command |-> p.command, response |-> p.rows]
                                   ELSE records[k]
               /\ \A a \in Aggregate :
                     /\ EventsOn(a)' = Visible(p, a)
                     /\ \A s \in Request :
                           Own(request[s], a)' = IF s = r THEN {} ELSE Own(request[s], a)
<1> DEFINE p == request[r]
<1>1. /\ p.phase = "running"
      /\ Finished(p)
      /\ request' = [request EXCEPT ![r] = Idle]
      /\ events' = events \cup Elements(p.rows)
      /\ records' = [k \in Key |-> IF k = p.key
                                   THEN [command |-> p.command, response |-> p.rows]
                                   ELSE records[k]]
  BY DEF Commit, In
<1>2. ~In(r, "idle") /\ p \in Session(p) /\ WroteSoFar(p)
  BY <1>1, SessionTypes DEF IInv, In
<1>3. p.key \in Key \cup {None}
  BY <1>2 DEF Session
<1>4. Reserves(p) <=> p.key # None
  BY <1>1 DEF Reserves
<1>5. p.key # None => ~Recorded(p.key) /\ p.command \in ApiCommand
  BY <1>2, <1>4 DEF IInv, KeysAreHeld, WroteSoFar
<1>6. request'[r] = Idle /\ Only(r)
  BY <1>1 DEF IInv, Shapes, Only
<1>7. \A a \in Aggregate : EventsOn(a)' = Visible(p, a)
  BY <1>1 DEF EventsOn, Visible, Own
<1>8. ASSUME NEW a \in Aggregate, NEW s \in Request
      PROVE  Own(request[s], a)' = IF s = r THEN {} ELSE Own(request[s], a)
  <2>1. Own(request[s], a)' = Own(request'[s], a)
    BY DEF Own, Elements
  <2>2. Own(Idle, a) = {}
    BY DEF Own, Idle, Elements
  <2>3. QED
    BY <1>6, <2>1, <2>2 DEF Only
<1>9. QED
  BY <1>1, <1>2, <1>3, <1>4, <1>5, <1>6, <1>7, <1>8

LEMMA CommitKeepsShapes ==
    ASSUME IInv, NEW r \in Request, Commit(r)
    PROVE  Shapes' /\ TransactionsStand'
<1> DEFINE p == request[r]
<1>1. Idle \in Session(Idle) /\ Stands(Idle)
  BY SessionTypes DEF IInv
<1>2. /\ request'[r] = Idle
      /\ Only(r)
      /\ events' = events \cup Elements(p.rows)
      /\ \A k \in Key :
            records'[k] = IF k = p.key THEN [command |-> p.command, response |-> p.rows]
                          ELSE records[k]
      /\ p.key # None => p.command \in ApiCommand
      /\ WroteSoFar(p)
  BY CommitChanges
<1>3. request' = [s \in Request |-> request'[s]] /\ records' = [k \in Key |-> records'[k]]
  BY DEF Commit, IInv, Shapes
<1>4. \A s \in Request : request'[s] \in Session(request'[s])
  BY <1>1, <1>2 DEF IInv, Shapes, Only
<1>5. ASSUME NEW k \in Key
      PROVE  records'[k] \in [command : ApiCommand \cup {None}, response : {records'[k].response}]
  <2>1. CASE k = p.key
    <3>1. p.command \in ApiCommand
      BY <1>2, <2>1, NoneAssumption
    <3>2. QED
      BY <1>2, <2>1, <3>1
  <2>2. CASE k # p.key
    BY <1>2, <2>2 DEF IInv, Shapes
  <2>3. QED
    BY <2>1, <2>2
<1>6. \A row \in events' : RowOK(row)
  BY <1>2 DEF IInv, Shapes, WroteSoFar
<1>7. Shapes'
  BY <1>3, <1>4, <1>5, <1>6 DEF Shapes, Session, RowOK, Elements
<1>8. TransactionsStand'
  <2>1. \A s \in Request : Stands(request'[s])
    BY <1>1, <1>2 DEF IInv, TransactionsStand, Stands, Only, In
  <2>2. QED
    BY <2>1 DEF TransactionsStand, Stands, In, Idle, Genesis, WroteSoFar, Positioned,
                Finished, Current, Elements, RowOK
<1>9. QED
  BY <1>7, <1>8

\* The effect of a key and the record of it appear together.
LEMMA CommitKeepsEffects ==
    ASSUME IInv, NEW r \in Request, Commit(r)
    PROVE  EffectIffRecorded'
<1> DEFINE p == request[r]
<1>1. /\ events' = events \cup Elements(p.rows)
      /\ \A k \in Key :
            records'[k] = IF k = p.key THEN [command |-> p.command, response |-> p.rows]
                          ELSE records[k]
      /\ p.key # None => ~Recorded(p.key) /\ p.command \in ApiCommand
      /\ WroteSoFar(p)
      /\ Finished(p)
  BY CommitChanges
<1>2. \A row \in Elements(p.rows) : row.key = p.key
  BY <1>1 DEF WroteSoFar
<1>3. ASSUME NEW k \in Key
      PROVE  IF ~Recorded(k)' THEN RowsOf(k)' = {}
             ELSE /\ RowsOf(k)' = Elements(records'[k].response)
                  /\ Cardinality(RowsOf(k)') = Cardinality(Appends(records'[k].command))
  <2>1. CASE k = p.key
    <3>1. RowsOf(k) = {}
      BY <1>1, <2>1, NoneAssumption DEF IInv, EffectIffRecorded
    <3>2. RowsOf(k)' = Elements(p.rows)
      BY <1>1, <1>2, <2>1, <3>1 DEF RowsOf
    <3>3. records'[k].command = p.command /\ records'[k].response = p.rows
      BY <1>1, <2>1
    <3>4. p.command # None
      BY <1>1, <2>1, NoneAssumption DEF Command
    <3>5. Cardinality(Elements(p.rows)) = Cardinality(Appends(p.command))
      BY <1>1, FinishedRows
    <3>6. QED
      BY <3>2, <3>3, <3>4, <3>5 DEF Recorded
  <2>2. CASE k # p.key
    <3>1. RowsOf(k)' = RowsOf(k)
      BY <1>1, <1>2, <2>2 DEF RowsOf
    <3>2. records'[k] = records[k]
      BY <1>1, <2>2
    <3>3. Recorded(k)' <=> Recorded(k)
      BY <3>2 DEF Recorded
    <3>4. QED
      BY <3>1, <3>2, <3>3 DEF IInv, EffectIffRecorded
  <2>3. QED
    BY <2>1, <2>2
<1>4. QED
  BY <1>3 DEF EffectIffRecorded, Elements, Appends

LEMMA CommitKeepsAnswers ==
    ASSUME IInv, NEW r \in Request, Commit(r)
    PROVE  AnswersAreDurable' /\ AnswersAreRecorded' /\ KeysAreHeld'
<1> DEFINE p == request[r]
           answer == [key |-> p.key, command |-> p.command, response |-> p.rows]
<1>1. /\ Only(r)
      /\ request'[r] = Idle
      /\ \A k \in Key :
            records'[k] = IF k = p.key THEN [command |-> p.command, response |-> p.rows]
                          ELSE records[k]
      /\ p.key # None => ~Recorded(p.key) /\ p.command \in ApiCommand
      /\ p.key \in Key \cup {None}
      /\ Reserves(p) <=> p.key # None
  BY CommitChanges
<1>2. answers' = IF p.key = None THEN answers ELSE answers \cup {answer}
  BY DEF Commit
<1>3. p.key # None => p.key \in Key /\ p.command # None
  BY <1>1, NoneAssumption DEF Command
<1>4. \A k \in Key : Recorded(k) => records'[k] = records[k]
  BY <1>1, NoneAssumption
<1>5. ASSUME NEW x \in answers'
      PROVE  /\ x.key \in Key
             /\ records'[x.key] = [command |-> x.command, response |-> x.response]
             /\ records'[x.key].command # None
  <2>1. CASE x \in answers
    <3>1. x.key \in Key /\ Recorded(x.key)
      BY <2>1 DEF IInv, AnswersAreRecorded
    <3>2. records'[x.key] = records[x.key]
      BY <1>4, <3>1
    <3>3. QED
      BY <2>1, <3>1, <3>2 DEF IInv, AnswersAreDurable, Recorded
  <2>2. CASE x \notin answers
    <3>1. x = answer /\ p.key # None
      BY <1>2, <2>2
    <3>2. QED
      BY <1>1, <1>3, <3>1
  <2>3. QED
    BY <2>1, <2>2
<1>6. AnswersAreDurable' /\ AnswersAreRecorded'
  BY <1>5 DEF AnswersAreDurable, AnswersAreRecorded, Recorded
<1>7. KeysAreHeld'
  <2>1. ~Reserves(request'[r])
    BY <1>1 DEF Reserves, Idle
  <2>2. ASSUME NEW s \in Request \ {r}, Reserves(request[s])
        PROVE  records'[request[s].key] = records[request[s].key]
    <3>1. request[s].key \in Key
      BY <2>2 DEF Reserves, IInv, Shapes, Session
    <3>2. request[s].key # p.key
      BY <1>1, <2>2, <3>1, NoneAssumption DEF IInv, KeysAreHeld
    <3>3. QED
      BY <1>1, <3>1, <3>2
  <2>3. QED
    BY <1>1, <2>1, <2>2 DEF IInv, KeysAreHeld, Only, Recorded, Reserves
<1>8. QED
  BY <1>6, <1>7

\* The chains that one thread saw alone, all see now.
LEMMA CommitKeepsChains ==
    ASSUME IInv, NEW r \in Request, Commit(r)
    PROVE  RowLocksAreExclusive' /\ OneWriter' /\ OwnRowsAreNew' /\ ChainsAreWhole'
<1> DEFINE p == request[r]
<1>1. /\ Only(r)
      /\ request'[r] = Idle
      /\ events' = events \cup Elements(p.rows)
      /\ WroteSoFar(p)
      /\ \A a \in Aggregate :
            /\ EventsOn(a)' = Visible(p, a)
            /\ \A s \in Request :
                  Own(request[s], a)' = IF s = r THEN {} ELSE Own(request[s], a)
  BY CommitChanges
<1>2. RowLocksAreExclusive'
  <2>1. Locks(Idle) = {}
    BY DEF Locks, Idle
  <2>2. QED
    BY <1>1, <2>1, KeepsLocks DEF IInv
<1>3. OneWriter'
  BY <1>1 DEF IInv, OneWriter
<1>4. OwnRowsAreNew'
  <2>1. ASSUME NEW s \in Request, NEW x \in Elements(request'[s].rows)
        PROVE  x \notin events'
    <3>1. s # r
      BY <1>1 DEF Idle, Elements
    <3>2. x \in Elements(request[s].rows)
      BY <1>1, <3>1 DEF Only
    <3>3. x \notin events
      BY <3>2 DEF IInv, OwnRowsAreNew
    <3>4. x.aggregate \in Aggregate /\ x \in Own(request[s], x.aggregate)
      <4>1. ~In(s, "idle")
        BY <3>2, SessionTypes DEF IInv, Stands, Idle, In, Elements
      <4>2. WroteSoFar(request[s])
        BY <4>1, SessionTypes DEF IInv
      <4>3. QED
        BY <3>2, <4>2 DEF WroteSoFar, RowOK, Own
    <3>5. Own(p, x.aggregate) = {}
      BY <3>1, <3>4 DEF IInv, OneWriter
    <3>6. x \notin Elements(p.rows)
      BY <3>5 DEF Own
    <3>7. QED
      BY <1>1, <3>3, <3>6
  <2>2. QED
    BY <2>1 DEF OwnRowsAreNew, Elements
<1>5. ChainsAreWhole'
  <2>1. \A a \in Aggregate : Chain(EventsOn(a)')
    BY <1>1 DEF IInv, ChainsAreWhole
  <2>2. ASSUME NEW a \in Aggregate, NEW s \in Request
        PROVE  Chain(Visible(request[s], a)')
    <3>1. Visible(request[s], a)' = Visible(p, a) \cup Own(request[s], a)'
      BY <1>1 DEF Visible
    <3>2. CASE s = r \/ Own(request[s], a) = {}
      <4>1. Visible(request[s], a)' = Visible(p, a)
        BY <1>1, <3>1, <3>2
      <4>2. QED
        BY <4>1 DEF IInv, ChainsAreWhole
    <3>3. CASE s # r /\ Own(request[s], a) # {}
      <4>1. Own(p, a) = {}
        BY <3>3 DEF IInv, OneWriter
      <4>2. Visible(request[s], a)' = Visible(request[s], a)
        BY <1>1, <3>1, <3>3, <4>1 DEF Visible
      <4>3. QED
        BY <4>2 DEF IInv, ChainsAreWhole
    <3>4. QED
      BY <3>2, <3>3
  <2>3. QED
    BY <2>1, <2>2 DEF ChainsAreWhole, Chain, Numbered, Genesis
<1>6. QED
  BY <1>2, <1>3, <1>4, <1>5

\* Nothing was committed on a guarded chain whose last row a thread looked up:
\* that thread holds the business row.
LEMMA CommitKeepsLast ==
    ASSUME IInv, NEW r \in Request, Commit(r)
    PROVE  LastStands'
<1> DEFINE p == request[r]
<1>1. /\ Only(r)
      /\ request'[r] = Idle
      /\ WroteSoFar(p)
      /\ \A a \in Aggregate :
            /\ EventsOn(a)' = Visible(p, a)
            /\ \A s \in Request :
                  Own(request[s], a)' = IF s = r THEN {} ELSE Own(request[s], a)
  BY CommitChanges
<1>2. ASSUME NEW s \in Request, Positioned(request[s])'
      PROVE  LET q == request[s]
                 a == Current(q).on
             IN  (/\ q.last = Genesis \/ q.last \in Visible(q, a)
                  /\ Guarded(a) => \A row \in Visible(q, a) : row.sequence <= q.last.sequence)'
  <2> DEFINE q == request[s]
  <2>1. s # r
    BY <1>1, <1>2 DEF Positioned, Idle
  <2>2. request'[s] = request[s] /\ Positioned(q)
    BY <1>1, <1>2, <2>1 DEF Only, Positioned
  <2>3. WroteSoFar(q)
    BY <2>2, SessionTypes DEF IInv, In, Positioned
  <2>4. PICK a \in Aggregate : a = Current(q).on
    BY <2>2, <2>3, GuardedPosition
  <2>5. Visible(q, a)' = Visible(q, a) \cup Own(p, a)
    BY <1>1, <2>1, <2>4 DEF Visible
  <2>6. q.last = Genesis \/ q.last \in Visible(q, a)
    BY <2>2, <2>4 DEF IInv, LastStands
  <2>7. Guarded(a) => \A row \in Visible(q, a) \cup Own(p, a) : row.sequence <= q.last.sequence
    <3>1. ASSUME Guarded(a)
          PROVE  Own(p, a) = {}
      <4>1. a \in Locks(q)
        BY <2>2, <2>3, <2>4, <3>1, GuardedPosition
      <4>2. Own(p, a) # {} => a \in Locks(p)
        BY <1>1, <2>4, <3>1, GuardedWrite
      <4>3. QED
        BY <2>1, <4>1, <4>2 DEF IInv, RowLocksAreExclusive
    <3>2. QED
      BY <2>2, <2>4, <3>1 DEF IInv, LastStands
  <2>8. /\ Visible(request[s], Current(request[s]).on)' = Visible(q, a) \cup Own(p, a)
        /\ Guarded(Current(request[s]).on)' = Guarded(a)
    <3>1. Current(request[s]).on' = a
      BY <2>2, <2>4 DEF Current
    <3>2. QED
      BY <2>5, <3>1 DEF Visible, EventsOn, Own, Elements, Guarded
  <2>9. QED
    BY <2>2, <2>6, <2>7, <2>8 DEF Genesis
<1>3. QED
  BY <1>2 DEF LastStands

LEMMA CommitKeeps ==
    ASSUME IInv, NEW r \in Request, Commit(r)
    PROVE  IInv'
  BY CommitKeepsShapes, CommitKeepsEffects, CommitKeepsAnswers, CommitKeepsChains,
     CommitKeepsLast DEF IInv
-----------------------------------------------------------------------------
(* The invariant, and what follows from it.                                 *)

LEMMA InitHolds == Init => IInv
<1> SUFFICES ASSUME Init
             PROVE  IInv
  OBVIOUS
<1>1. /\ request = [r \in Request |-> Idle]
      /\ records = [k \in Key |-> NoRecord]
      /\ events = {}
      /\ answers = {}
  BY DEF Init
<1>2. <<>> \in Seq(Elements(Idle.rows))
  OBVIOUS
<1>3. Idle \in Session(Idle)
  BY <1>2 DEF Session, Idle, Phase
<1>4. NoRecord \in [command : ApiCommand \cup {None}, response : {NoRecord.response}]
  BY DEF NoRecord
<1>5. Shapes
  BY <1>1, <1>3, <1>4 DEF Shapes, Session
<1>6. TransactionsStand
  BY <1>1 DEF TransactionsStand, In, Idle
<1>7. KeysAreHeld /\ RowLocksAreExclusive
  BY <1>1 DEF KeysAreHeld, Reserves, RowLocksAreExclusive, Locks, Idle
<1>8. EffectIffRecorded /\ AnswersAreDurable /\ AnswersAreRecorded
  BY <1>1 DEF EffectIffRecorded, Recorded, RowsOf, NoRecord, AnswersAreDurable,
              AnswersAreRecorded
<1>9. Elements(<<>>) = {}
  BY DEF Elements
<1>10. OneWriter /\ OwnRowsAreNew
  BY <1>1, <1>9 DEF OneWriter, OwnRowsAreNew, Own, Idle
<1>11. Chain({})
  <2>1. Numbered({}, 0)
    BY DEF Numbered
  <2>2. QED
    BY <2>1 DEF Chain
<1>12. ChainsAreWhole
  BY <1>1, <1>9, <1>11 DEF ChainsAreWhole, Visible, EventsOn, Own, Idle
<1>13. LastStands
  BY <1>1 DEF LastStands, Positioned, Idle
<1>14. QED
  BY <1>5, <1>6, <1>7, <1>8, <1>10, <1>12, <1>13 DEF IInv

LEMMA StepHolds == IInv /\ [Next]_vars => IInv'
<1> SUFFICES ASSUME IInv, [Next]_vars
             PROVE  IInv'
  OBVIOUS
<1>1. CASE Next
  <2>1. PICK r \in Request : Arrive(r) \/ Step(r) \/ RollBack(r)
    BY <1>1 DEF Next
  <2>2. CASE Arrive(r)
    BY <2>2, ArriveKeeps
  <2>3. CASE Acquire(r)
    BY <2>3, AcquireKeeps
  <2>4. CASE AnswerRecorded(r)
    BY <2>4, AnswerRecordedKeeps
  <2>5. CASE LockRow(r)
    BY <2>5, LockRowKeeps
  <2>6. CASE Peek(r)
    BY <2>6, PeekKeeps
  <2>7. CASE LockLast(r)
    BY <2>7, LockLastKeeps
  <2>8. CASE AppendEvent(r)
    BY <2>8, AppendEventKeeps
  <2>9. CASE Collide(r) \/ RollBack(r) \/ DeadlockVictim(r)
    BY <2>9, RollBackKeeps
  <2>10. CASE Commit(r)
    BY <2>10, CommitKeeps
  <2>11. QED
    BY <2>1, <2>2, <2>3, <2>4, <2>5, <2>6, <2>7, <2>8, <2>9, <2>10 DEF Step
<1>2. CASE UNCHANGED vars
  <2>1. UNCHANGED <<records, events, answers, request>>
    BY <1>2 DEF vars
  <2>2. EffectIffRecorded' /\ AnswersAreDurable' /\ AnswersAreRecorded'
    BY <2>1, SameLedger DEF IInv
  <2>3. Shapes'
    BY <2>1 DEF IInv, Shapes, Session, RowOK, Elements
  <2>4. TransactionsStand'
    BY <2>1 DEF IInv, TransactionsStand, In, Idle, Genesis, WroteSoFar, Positioned,
                Finished, Current, Elements, RowOK
  <2>5. KeysAreHeld' /\ RowLocksAreExclusive'
    <3>1. \A s \in Request : Locks(request[s])' = Locks(request[s])
      BY <2>1 DEF Locks
    <3>2. RowLocksAreExclusive'
      BY <3>1 DEF IInv, RowLocksAreExclusive
    <3>3. KeysAreHeld'
      BY <2>1 DEF IInv, KeysAreHeld, Reserves, Recorded
    <3>4. QED
      BY <3>2, <3>3
  <2>6. OneWriter' /\ OwnRowsAreNew'
    BY <2>1 DEF IInv, OneWriter, Own, OwnRowsAreNew, Elements
  <2>7. ChainsAreWhole'
    BY <2>1 DEF IInv, ChainsAreWhole, Visible, EventsOn, Own, Elements, Chain, Numbered,
                Genesis
  <2>8. LastStands'
    BY <2>1 DEF IInv, LastStands, Positioned, Current, Visible, EventsOn, Own, Elements,
                Guarded, Genesis
  <2>9. QED
    BY <2>2, <2>3, <2>4, <2>5, <2>6, <2>7, <2>8 DEF IInv
<1>3. QED
  BY <1>1, <1>2

LEMMA InvariantHolds == Spec => []IInv
  BY InitHolds, StepHolds, PTL DEF Spec

\* A command under an idempotency key takes effect exactly when the key has a
\* record, once, and as a whole: the audit rows of the key are those of the
\* stored response, one for each event of the command (IdempotencyService
\* commits them in one transaction).
THEOREM EffectsAreWhole == Spec => []EffectIffRecorded
  BY InvariantHolds, PTL DEF IInv

\* Whatever a client was told under a key is what the ledger holds for good.
THEOREM AnswersHold == Spec => []AnswersAreDurable
  BY InvariantHolds, PTL DEF IInv

LEMMA InvariantVerifies == IInv => ChainsStand
<1> SUFFICES ASSUME IInv
             PROVE  TypeOK /\ ChainVerifies /\ GuardedChainsNeverCollide
  BY DEF ChainsStand
<1>1. TypeOK
  <2>1. \A row \in events : RowOK(row)
    BY DEF IInv, Shapes
  <2>2. \A k \in Key : Recorded(k) => records[k].command \in ApiCommand
    BY DEF IInv, Shapes, Recorded
  <2>3. ASSUME NEW r \in Active
        PROVE  /\ request[r].key \in Key \cup {None}
               /\ request[r].command \in Command
               /\ request[r].done \in 0 .. Len(request[r].command)
               /\ request[r].phase \in Phase
               /\ \A row \in Elements(request[r].rows) : RowOK(row)
               /\ request[r].phase = "reserving" => request[r].done = 0
    <3>1. r \in Request /\ ~In(r, "idle")
      BY DEF Active
    <3>2. request[r] \in Session(request[r]) /\ WroteSoFar(request[r])
      BY <3>1, SessionTypes DEF IInv
    <3>3. request[r].key \in Key \cup {None} /\ request[r].phase \in Phase
      BY <3>2 DEF Session
    <3>4. QED
      BY <3>2, <3>3 DEF WroteSoFar
  <2>4. QED
    BY <2>1, <2>2, <2>3 DEF TypeOK
<1>2. ASSUME NEW a \in Aggregate
      PROVE  {row.sequence : row \in EventsOn(a)} = 1 .. Cardinality(EventsOn(a))
  <2>1. Numbered(EventsOn(a), Cardinality(EventsOn(a)))
    BY ChainSize DEF IInv, ChainsAreWhole
  <2>2. QED
    BY <2>1 DEF Numbered
<1>3. ChainVerifies
  BY <1>2 DEF ChainVerifies, IInv, ChainsAreWhole, Chain
<1>4. GuardedChainsNeverCollide
  <2>1. ASSUME NEW r \in Request, In(r, "inserting"), Guarded(Current(request[r]).on),
               SlotTaken(request[r])
        PROVE  FALSE
    <3> DEFINE q == request[r]
               a == Current(q).on
    <3>1. PICK x \in events \cup Elements(q.rows) : SameSlot(x, NewRow(q))
      BY <2>1 DEF SlotTaken
    <3>2. x \in Visible(q, a) /\ x.sequence = q.last.sequence + 1
      BY <3>1 DEF SameSlot, NewRow, Visible, EventsOn, Own
    <3>3. /\ Positioned(q)
          /\ x.sequence <= q.last.sequence
          /\ q.last = Genesis \/ q.last \in Visible(q, a)
      BY <2>1, <3>2 DEF IInv, LastStands, In, Positioned
    <3>4. a \in Aggregate
      BY <2>1, <3>3, SessionTypes, GuardedPosition DEF IInv, In
    <3>5. q.last.sequence \in Nat
      <4>1. Chain(Visible(q, a))
        BY <3>4 DEF IInv, ChainsAreWhole
      <4>2. QED
        BY <3>3, <4>1 DEF Chain, Numbered, Genesis
    <3>6. QED
      BY <3>2, <3>3, <3>5
  <2>2. QED
    BY <2>1 DEF GuardedChainsNeverCollide
<1>5. QED
  BY <1>1, <1>3, <1>4

\* However transactions interleave, the committed chain of every aggregate
\* verifies; and a transaction that locks the business row before it appends
\* never fails on the unique constraint of audit_events.
THEOREM ChainsAlwaysVerify == Spec => []ChainsStand
  BY InvariantHolds, InvariantVerifies, PTL
-----------------------------------------------------------------------------
(* Seen from the committed chains, transactions happen one after another.   *)

ChainOf == [a \in Aggregate |-> [n \in 1 .. Cardinality(EventsOn(a)) |-> KeyAt(a, n)]]

Accepted == [k \in Key |-> records[k].command]

LEMMA SerialInit == Init => Serial!Init
<1> SUFFICES ASSUME Init
             PROVE  Serial!Init
  OBVIOUS
<1>1. \A a \in Aggregate : EventsOn(a) = {}
  BY DEF Init, EventsOn
<1>2. \A a \in Aggregate : Cardinality(EventsOn(a)) = 0
  BY <1>1, FS_EmptySet
<1>3. \A a \in Aggregate : [n \in 1 .. Cardinality(EventsOn(a)) |-> KeyAt(a, n)] = <<>>
  BY <1>2
<1>4. \A k \in Key : records[k].command = None
  BY DEF Init, NoRecord
<1>5. QED
  BY <1>3, <1>4 DEF Serial!Init

\* The key of the row of S with number n.
KeyIn(S, n) ==
    LET here == {row \in S : row.sequence = n}
    IN  IF here = {} THEN None ELSE (CHOOSE row \in here : TRUE).key

KeysOf(S) == [n \in 1 .. Cardinality(S) |-> KeyIn(S, n)]

Times(m, k) == [n \in 1 .. m |-> k]

LEMMA ChainKeys ==
    ASSUME NEW S, \A x, y \in S : x.sequence = y.sequence => x = y, NEW row \in S
    PROVE  KeyIn(S, row.sequence) = row.key
<1> DEFINE here == {x \in S : x.sequence = row.sequence}
<1>1. here = {row}
  OBVIOUS
<1>2. QED
  BY <1>1 DEF KeyIn

\* Rows M, all under the key k, that continue the chain S append as many k.
LEMMA KeysContinue ==
    ASSUME NEW S, NEW M, Chain(S), Chain(S \cup M), S \cap M = {}, IsFiniteSet(M),
           NEW k, \A row \in M : row.key = k
    PROVE  KeysOf(S \cup M) = KeysOf(S) \o Times(Cardinality(M), k)
<1> DEFINE n == Cardinality(S)
           m == Cardinality(M)
           old == [i \in 1 .. n |-> KeyIn(S, i)]
           block == [i \in 1 .. m |-> k]
<1>1. IsFiniteSet(S) /\ n \in Nat /\ Numbered(S, n)
  BY ChainSize
<1>2. m \in Nat
  BY FS_CardinalityType
<1>3. Numbered(S \cup M, Cardinality(S \cup M))
  BY ChainSize
<1>4. Cardinality(S \cup M) = n + m
  <2>1. Cardinality(S \cup M) = n + m - Cardinality({})
    BY <1>1, FS_Union
  <2>2. QED
    BY <1>1, <1>2, <2>1, FS_EmptySet
<1> HIDE DEF n, m
<1> DEFINE T == {k} \cup {KeyIn(S, i) : i \in 1 .. n}
<1>5. k \in T /\ \A i \in 1 .. n : KeyIn(S, i) \in T
  OBVIOUS
<1> HIDE DEF T
<1>6. /\ old \in Seq(T) /\ Len(old) = n
      /\ block \in Seq(T) /\ Len(block) = m
  BY <1>1, <1>2, <1>5
<1>7. /\ old \o block \in Seq(T)
      /\ Len(old \o block) = n + m
      /\ \A i \in 1 .. n + m : (old \o block)[i] = IF i <= n THEN old[i] ELSE block[i - n]
  <2> HIDE DEF old, block
  <2>1. QED
    BY <1>6, ConcatProperties
<1>8. ASSUME NEW i \in 1 .. n + m
      PROVE  KeyIn(S \cup M, i) = IF i <= n THEN KeyIn(S, i) ELSE k
  <2>1. CASE i <= n
    <3>1. PICK x \in S : x.sequence = i
      BY <1>1, <1>2, <2>1 DEF Numbered
    <3>2. KeyIn(S, x.sequence) = x.key /\ KeyIn(S \cup M, x.sequence) = x.key
      BY ChainKeys DEF Chain
    <3>3. QED
      BY <2>1, <3>1, <3>2
  <2>2. CASE ~(i <= n)
    <3>1. PICK x \in S \cup M : x.sequence = i
      BY <1>3, <1>4 DEF Numbered
    <3>2. x \in M
      BY <1>1, <1>2, <2>2, <3>1 DEF Numbered
    <3>3. KeyIn(S \cup M, x.sequence) = x.key
      BY ChainKeys DEF Chain
    <3>4. QED
      BY <2>2, <3>1, <3>2, <3>3
  <2>3. QED
    BY <2>1, <2>2
<1>9. \A i \in 1 .. n + m : (old \o block)[i] = KeyIn(S \cup M, i)
  <2>1. \A i \in 1 .. n + m : i <= n => i \in 1 .. n
    BY <1>1, <1>2
  <2>2. \A i \in 1 .. n + m : ~(i <= n) => i - n \in 1 .. m
    BY <1>1, <1>2
  <2>3. QED
    BY <1>7, <1>8, <2>1, <2>2
<1> HIDE DEF old, block
<1>10. old \o block = [i \in 1 .. n + m |-> KeyIn(S \cup M, i)]
  <2> DEFINE whole == old \o block
  <2> HIDE DEF whole
  <2>1. whole \in Seq(T) /\ Len(whole) = n + m
    BY <1>7 DEF whole
  <2>2. whole = [i \in 1 .. n + m |-> whole[i]]
    BY <2>1
  <2>3. \A i \in 1 .. n + m : whole[i] = KeyIn(S \cup M, i)
    BY <1>9 DEF whole
  <2>4. whole = [i \in 1 .. n + m |-> KeyIn(S \cup M, i)]
    BY <2>2, <2>3
  <2>5. QED
    BY <2>4 DEF whole
<1>11. QED
  BY <1>4, <1>10 DEF old, block, n, m, KeysOf, Times

LEMMA SerialCommit ==
    ASSUME IInv, NEW r \in Request, Commit(r)
    PROVE  Serial!Next
<1> DEFINE p == request[r]
<1>1. /\ WroteSoFar(p)
      /\ Finished(p)
      /\ p.key \in Key \cup {None}
      /\ p.key # None => ~Recorded(p.key)
      /\ \A k \in Key :
            records'[k] = IF k = p.key THEN [command |-> p.command, response |-> p.rows]
                          ELSE records[k]
      /\ \A a \in Aggregate : EventsOn(a)' = Visible(p, a)
  BY CommitChanges
<1>2. p.command \in Command
  BY <1>1 DEF WroteSoFar
<1>3. PICK k \in Key \cup {None}, c \in Command : k = p.key /\ c = p.command
  BY <1>1, <1>2
<1>4. k # None => Accepted[k] = None
  BY <1>1, <1>3 DEF Accepted, Recorded
<1>5. Accepted' = [q \in Key |-> IF q = k THEN c ELSE Accepted[q]]
  <2>1. \A q \in Key : records'[q].command = IF q = k THEN c ELSE records[q].command
    BY <1>1, <1>3
  <2>2. QED
    BY <2>1 DEF Accepted
<1>6. ASSUME NEW a \in Aggregate
      PROVE  KeysOf(EventsOn(a)') = KeysOf(EventsOn(a)) \o Serial!Block(k, c, a)
  <2>1. PICK S, M : S = EventsOn(a) /\ M = Own(p, a)
    OBVIOUS
  <2>2. IsFiniteSet(M)
    BY <1>1, <2>1, FinishedRows
  <2>3. Cardinality(M) = Cardinality(Serial!Writes(c, a))
    BY <1>1, <1>3, <2>1, FinishedRows
  <2>4. Chain(S)
    BY <2>1 DEF IInv, ChainsAreWhole
  <2>5. Chain(S \cup M)
    BY <2>1 DEF IInv, ChainsAreWhole, Visible
  <2>6. S \cap M = {}
    BY <2>1 DEF IInv, OwnRowsAreNew, EventsOn, Own
  <2>7. \A row \in M : row.key = k
    BY <1>1, <1>3, <2>1 DEF WroteSoFar, Own
  <2>8. KeysOf(S \cup M) = KeysOf(S) \o Times(Cardinality(M), k)
    BY <2>2, <2>4, <2>5, <2>6, <2>7, KeysContinue
  <2>9. Serial!Block(k, c, a) = Times(Cardinality(M), k)
    BY <2>3 DEF Serial!Block, Serial!Cardinality, Cardinality, Times
  <2>10. EventsOn(a)' = S \cup M
    BY <1>1, <2>1 DEF Visible
  <2>11. QED
    BY <2>1, <2>8, <2>9, <2>10
<1>7. \A a \in Aggregate : ChainOf[a] = KeysOf(EventsOn(a))
  BY DEF ChainOf, KeysOf, KeyAt, KeyIn
<1>8. ChainOf' = [a \in Aggregate |-> KeysOf(EventsOn(a)')]
  BY DEF ChainOf, KeysOf, KeyAt, KeyIn
<1>9. ChainOf' = [a \in Aggregate |-> ChainOf[a] \o Serial!Block(k, c, a)]
  BY <1>6, <1>7, <1>8
<1>10. Serial!Execute(k, c)
  BY <1>4, <1>5, <1>9 DEF Serial!Execute, ChainOf, Accepted
<1>11. QED
  BY <1>10 DEF Serial!Next

LEMMA SerialStutters ==
    ASSUME UNCHANGED <<records, events>>
    PROVE  UNCHANGED Serial!vars
  BY DEF Serial!vars, EventsOn, KeyAt

LEMMA SerialStep == IInv /\ [Next]_vars => [Serial!Next]_(Serial!vars)
<1> SUFFICES ASSUME IInv, [Next]_vars
             PROVE  Serial!Next \/ UNCHANGED Serial!vars
  OBVIOUS
<1>1. CASE \E r \in Request : Commit(r)
  BY <1>1, SerialCommit
<1>2. CASE UNCHANGED <<records, events>>
  BY <1>2, SerialStutters
<1>3. (\E r \in Request : Commit(r)) \/ UNCHANGED <<records, events>>
  BY DEF Next, Step, vars, Arrive, Acquire, AnswerRecorded, LockRow, Peek, LockLast,
         AppendEvent, Collide, DeadlockVictim, RollBack
<1>4. QED
  BY <1>1, <1>2, <1>3

\* The interleaved transactions implement the serial ledger: each commit
\* executes one command, whose events extend every chain in one block, and the
\* other steps are not visible.
THEOREM CommandsAreSerial == Spec => ImplementsSerialLedger
<1>1. Init => Serial!Init
  BY SerialInit
<1>2. IInv /\ [Next]_vars => [Serial!Next]_(Serial!vars)
  BY SerialStep
<1>3. QED
  BY <1>1, <1>2, InvariantHolds, PTL DEF Spec, ImplementsSerialLedger, Serial!Spec
=============================================================================
