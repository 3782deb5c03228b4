----------------------------- MODULE MCLifecycle -----------------------------
(***************************************************************************)
(* Two instances of ProjectLifecycle in one run: the documents of a project *)
(* up to its calculation, and every gate with one document.  The constants  *)
(* are those of the gates; the instance of the documents has more of both.  *)
(***************************************************************************)
EXTENDS MCProjectLifecycle

CONSTANTS Several, ManyUploads  \* documents and uploads of the first instance

VARIABLE part

Documents == INSTANCE ProjectLifecycle WITH Document <- Several, MaxUploads <- ManyUploads

LifecycleInit == \/ part = "documents" /\ Documents!Init
                 \/ part = "gates" /\ Init

LifecycleNext == /\ UNCHANGED part
                 /\ \/ part = "documents" /\ Documents!Next
                    \/ part = "gates" /\ Next

LifecycleSpec == LifecycleInit /\ [][LifecycleNext]_<<vars, part>>

Bound == IF part = "documents" THEN PricingOnly ELSE OneSubmitter

LifecycleSymmetry == Permutations(Several) \cup Permutations(Person)
=============================================================================
