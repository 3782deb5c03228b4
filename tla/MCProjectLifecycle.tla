------------------------- MODULE MCProjectLifecycle -------------------------
(***************************************************************************)
(* Instances of ProjectLifecycle for TLC.                                   *)
(***************************************************************************)
EXTENDS ProjectLifecycle, TLC

\* Nothing but equality is asked of documents, people and drafts.
Symmetry ==
    Permutations(Document) \cup Permutations(Person) \cup Permutations(Draft)

\* Bound: only prices are attested, and the project takes the short way to the
\* calculation with files that parse; the rest is explored with one document.
PricingOnly ==
    /\ \A p \in Part \ {"price"} : attested[p] = None
    /\ state \in {"DRAFT", "DOCUMENTS_INCOMPLETE", "BLOCKED", "BOQ_IN_PROGRESS",
                  "PRICING_IN_PROGRESS", "CALCULATION_IN_PROGRESS",
                  "INDEPENDENT_VALIDATION"}
    /\ \A i \in DOMAIN uploads : uploads[i].clean

\* Bound: one person submits all uploads.
OneSubmitter == \A i \in DOMAIN uploads : uploads[i].by = uploads[1].by
=============================================================================
