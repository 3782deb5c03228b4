------------------------------ MODULE RateLimits ------------------------------
(***************************************************************************)
(* Distributed request quotas: counters in the database, one row per       *)
(* caller and one per organization, that every API instance increments.    *)
(*                                                                         *)
(* A request reads its clock, then increments the caller's row and the     *)
(* organization's row in one transaction.  The upsert holds each row it    *)
(* touched until the transaction ends, so increments of one row queue up;  *)
(* the clock was read before the queue.  One category of requests is       *)
(* modelled: the rows of different categories share nothing.               *)
(***************************************************************************)
EXTENDS Naturals, Sequences, FiniteSets

CONSTANTS
    Call,           \* requests
    Caller,         \* authenticated actors of one organization
    Organization,   \* the bucket of the organization
    Policy,         \* quota policies of the API instances (their hashes)
    CallerLimit, OrganizationLimit,
    WindowSeconds,
    LastSecond,     \* bound of the clock
    NoBucket

VARIABLES
    buckets,  \* [Caller \cup {Organization} -> committed row or NoBucket]
    calls,    \* [Call -> the progress of a request]
    second    \* the clock of the API instances

rateVars == <<buckets, calls, second>>

Bucket == Caller \cup {Organization}

\* RateLimitBucketRow.
BucketRow == [policy : Policy, window : Nat, count : Nat \ {0}, updated : Nat]

Outcome == {"served", "limited", "unavailable"}

Window(t) == t \div WindowSeconds

RateInit == /\ buckets = [b \in Bucket |-> NoBucket]
            /\ calls = [c \in Call |-> [step |-> "new"]]
            /\ second = 0

-----------------------------------------------------------------------------
\* consume: the clock, and with it the window, is read first.
Start(c, caller, policy) ==
    /\ calls[c].step = "new"
    /\ calls' = [calls EXCEPT ![c] = [step |-> "caller", caller |-> caller,
                    policy |-> policy, at |-> second, rows |-> <<>>]]
    /\ UNCHANGED <<buckets, second>>

\* Rows that a transaction has written and not committed: locked for others.
Holding(c) == IF calls[c].step = "organization" THEN {calls[c].caller}
              ELSE IF calls[c].step = "done" THEN {calls[c].caller, Organization}
              ELSE {}
\* Mutant: the rows of an open transaction are not locked.
LockedNever(b) == FALSE

Locked(b) == \E c \in Call : b \in Holding(c)

BucketOf(c) == IF calls[c].step = "caller" THEN calls[c].caller ELSE Organization

SameWindow(row, c) == row.window = Window(calls[c].at) /\ row.policy = calls[c].policy

\* The row the upsert of _increment leaves.
NextRow(row, c) ==
    [policy |-> calls[c].policy, window |-> Window(calls[c].at), updated |-> calls[c].at,
     count |-> IF row # NoBucket /\ SameWindow(row, c) THEN row.count + 1 ELSE 1]

\* Its WHERE: a newer window, or the same one under the same policy.
Applies(row, c) == row.window < Window(calls[c].at) \/ SameWindow(row, c)

\* The update trigger of rate_limit_buckets.
BucketChangeAllowed(old, new) ==
    /\ new.updated >= old.updated
    /\ \/ /\ new.window = old.window /\ new.policy = old.policy
          /\ new.count = old.count + 1
       \/ new.window > old.window /\ new.count = 1

Increments(c) == LET row == buckets[BucketOf(c)] IN
    row # NoBucket => Applies(row, c) /\ BucketChangeAllowed(row, NextRow(row, c))

\* _increment of one row, or the error that becomes a 503.
Increment(c) ==
    /\ calls[c].step \in {"caller", "organization"}
    /\ ~ Locked(BucketOf(c))
    /\ calls' = IF Increments(c)
         THEN [calls EXCEPT ![c].rows = Append(@, NextRow(buckets[BucketOf(c)], c)),
                  ![c].step = IF @ = "caller" THEN "organization" ELSE "done"]
         ELSE [calls EXCEPT ![c].step = "unavailable"]
    /\ UNCHANGED <<buckets, second>>

WithinLimits(c) == /\ calls[c].rows[1].count <= CallerLimit
                   /\ calls[c].rows[2].count <= OrganizationLimit

\* enforce_rate_limit: the transaction commits both rows, then answers.
Answer(c) ==
    /\ calls[c].step = "done"
    /\ buckets' = [buckets EXCEPT ![calls[c].caller] = calls[c].rows[1],
                                  ![Organization] = calls[c].rows[2]]
    /\ calls' = [calls EXCEPT ![c].step = IF WithinLimits(c) THEN "served" ELSE "limited"]
    /\ UNCHANGED second

\* The quota database fails: the transaction rolls back.
Unavailable(c) ==
    /\ calls[c].step \in {"caller", "organization", "done"}
    /\ calls' = [calls EXCEPT ![c].step = "lost"]
    /\ UNCHANGED <<buckets, second>>

Tick == /\ second < LastSecond
        /\ second' = second + 1
        /\ UNCHANGED <<buckets, calls>>

RateNext ==
    \/ \E c \in Call, a \in Caller, p \in Policy : Start(c, a, p)
    \/ \E c \in Call : Increment(c) \/ Answer(c) \/ Unavailable(c)
    \/ Tick

RateSpec == RateInit /\ [][RateNext]_rateVars

-----------------------------------------------------------------------------
RateTypeOK ==
    /\ \A b \in Bucket : buckets[b] # NoBucket => buckets[b] \in BucketRow
    /\ \A c \in Call : calls[c].step \in
          {"new", "caller", "organization", "done", "lost"} \cup Outcome

Served(b, w) == {c \in Call : /\ calls[c].step = "served"
                              /\ b \in {calls[c].caller, Organization}
                              /\ Window(calls[c].at) = w}

\* Concurrent requests never get more than the quota of their window, neither
\* one caller nor the organization, whichever instances count them.
QuotaHolds ==
    \A w \in 0 .. Window(LastSecond) :
        /\ \A a \in Caller : Cardinality(Served(a, w)) <= CallerLimit
        /\ Cardinality(Served(Organization, w)) <= OrganizationLimit
=============================================================================
