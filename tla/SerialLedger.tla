---------------------------- MODULE SerialLedger ----------------------------
(***************************************************************************)
(* What the mutating API promises about commands and their audit trail,     *)
(* with no transactions, locks or waiting: one command after another takes  *)
(* effect as a whole, at the end of the chain of every aggregate it writes, *)
(* and a command sent under an idempotency key takes effect at most once.   *)
(***************************************************************************)
EXTENDS Naturals, Sequences, FiniteSets

CONSTANTS
    Key,        \* idempotency keys of one actor
    Aggregate,  \* audited aggregates
    Command,    \* commands: sequences of [op, on] statements
    None

VARIABLES
    chain,      \* chain[a]: the keys of the commands in the audit chain of a
    accepted    \* accepted[k]: the command that took effect under key k

vars == <<chain, accepted>>

Init ==
    /\ chain = [a \in Aggregate |-> <<>>]
    /\ accepted = [k \in Key |-> None]

Writes(c, a) == {i \in DOMAIN c : c[i].op = "append" /\ c[i].on = a}

\* The events of command c on aggregate a, under key k.
Block(k, c, a) == [n \in 1 .. Cardinality(Writes(c, a)) |-> k]

Execute(k, c) ==
    /\ k # None => accepted[k] = None
    /\ chain' = [a \in Aggregate |-> chain[a] \o Block(k, c, a)]
    /\ accepted' = [q \in Key |-> IF q = k THEN c ELSE accepted[q]]

Next == \E k \in Key \cup {None}, c \in Command : Execute(k, c)

Spec == Init /\ [][Next]_vars
=============================================================================
