-------------------------- MODULE MCOutboxDelivery --------------------------
(***************************************************************************)
(* Instances of OutboxDelivery for TLC.                                    *)
(***************************************************************************)
EXTENDS OutboxDelivery, FiniteSets

\* The bound on tokens never keeps a process from claiming: besides the tokens
\* in the rows and in the memory of the processes there is a fresh one.
ASSUME EnoughTokens ==
    Cardinality(Token) > Cardinality(Event) + Cardinality(Worker)
=============================================================================
