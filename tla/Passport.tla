------------------------------ MODULE Passport ------------------------------
(***************************************************************************)
(* The project passport: one fact per field, taken from evidence, decided  *)
(* by somebody else.  Every decision validates the whole passport and      *)
(* replaces its findings; the stage gate looks at the facts themselves.    *)
(***************************************************************************)
EXTENDS Naturals, Sequences, FiniteSets

CONSTANTS
    Person, Requirements,
    Field,     \* the required fields
    MaxFacts,  \* bound: facts of all fields together
    MaxSets,   \* bound: document sets
    Nobody

VARIABLES
    facts,     \* [Field -> revisions, the last one current]
    reviews,   \* [Field -> status of the review task of each revision]
    approvals,
    findings,  \* fields with an unresolved finding
    requirements, docset, confirmed, disputed

passportVars == <<facts, reviews, approvals, findings, requirements, docset, confirmed, disputed>>

\* ProjectPassportFactRow.
FactRow == [by : Person, requirements : Requirements, docset : 1 .. MaxSets,
            status : {"IN_REVIEW", "VERIFIED", "REJECTED"}, reviewer : Person \cup {Nobody}]

PassportInit ==
    /\ facts = [f \in Field |-> <<>>] /\ reviews = [f \in Field |-> <<>>]
    /\ approvals = {} /\ findings = {}
    /\ requirements \in Requirements /\ docset = 1 /\ confirmed = TRUE /\ disputed = {}

-----------------------------------------------------------------------------
Stated == {f \in Field : facts[f] # <<>>}

CurrentFact(f) == facts[f][Len(facts[f])]

\* _build_validation: a field without a verified fact is a finding.
Invalid(rows) ==
    {f \in Field : rows[f] = <<>> \/ (rows[f] # <<>> /\ rows[f][Len(rows[f])].status # "VERIFIED")}

\* Mutant: findings stay until somebody asks for a validation.
FindingsKept(rows) == findings

\* _validate_current resolves the findings there are and writes the new ones.
Validated(rows) == Invalid(rows)

SupersededReview(f) ==
    [i \in DOMAIN reviews[f] |-> IF i = Len(reviews[f]) THEN "SUPERSEDED" ELSE reviews[f][i]]

SubmitFact(p, f) ==
    /\ confirmed /\ f \notin disputed
    /\ Cardinality(UNION {{g} \X DOMAIN facts[g] : g \in Field}) < MaxFacts
    /\ facts' = [facts EXCEPT ![f] = Append(@,
            [by |-> p, requirements |-> requirements, docset |-> docset,
             status |-> "IN_REVIEW", reviewer |-> Nobody])]
    /\ reviews' = [reviews EXCEPT ![f] = Append(SupersededReview(f), "PENDING")]
    /\ UNCHANGED <<approvals, findings, requirements, docset, confirmed, disputed>>

\* _review_blockers.
FactReviewable(p, f) ==
    /\ f \in Stated /\ confirmed /\ f \notin disputed
    /\ CurrentFact(f).status = "IN_REVIEW" /\ CurrentFact(f).by # p
    /\ CurrentFact(f).requirements = requirements /\ CurrentFact(f).docset = docset
    /\ reviews[f][Len(reviews[f])] = "PENDING"

DecideFact(p, f, decision) ==
    LET n == Len(facts[f])
        status == IF decision = "APPROVED" THEN "VERIFIED" ELSE "REJECTED"
    IN
    /\ FactReviewable(p, f)
    /\ facts' = [facts EXCEPT ![f][n].status = status, ![f][n].reviewer = p]
    /\ reviews' = [reviews EXCEPT ![f][n] = decision]
    /\ approvals' = approvals \cup {[of |-> <<f, n>>, by |-> p, decision |-> decision]}
    /\ findings' = Validated(facts')
    /\ UNCHANGED <<requirements, docset, confirmed, disputed>>

ValidateCurrent ==
    /\ confirmed
    /\ findings' = Invalid(facts)
    /\ UNCHANGED <<facts, reviews, approvals, requirements, docset, confirmed, disputed>>

\* _require_passport_fact_integrity.
FactVerifies(f) ==
    /\ f \in Stated
    /\ CurrentFact(f).status = "VERIFIED"
    /\ CurrentFact(f).reviewer \notin {Nobody, CurrentFact(f).by}
    /\ CurrentFact(f).requirements = requirements /\ CurrentFact(f).docset = docset
    /\ reviews[f][Len(reviews[f])] = "APPROVED"
    /\ [of |-> <<f, Len(facts[f])>>, by |-> CurrentFact(f).reviewer, decision |-> "APPROVED"]
          \in approvals

\* passport_stage_blockers finds nothing.
PassportGate == confirmed /\ disputed = {} /\ \A f \in Field : FactVerifies(f)

-----------------------------------------------------------------------------
\* _invalidate_derived_records for the current facts, and every task.
InvalidatedFacts == [f \in Field |-> [i \in DOMAIN facts[f] |->
    IF i = Len(facts[f]) THEN [facts[f][i] EXCEPT !.status = "IN_REVIEW"] ELSE facts[f][i]]]

ReplaceDocument ==
    /\ docset < MaxSets
    /\ facts' = InvalidatedFacts
    /\ reviews' = [f \in Field |-> [i \in DOMAIN reviews[f] |-> "SUPERSEDED"]]
    /\ docset' = docset + 1 /\ confirmed' = FALSE
    /\ UNCHANGED <<approvals, findings, requirements, disputed>>

ConfirmSet == /\ ~ confirmed /\ confirmed' = TRUE
              /\ UNCHANGED <<facts, reviews, approvals, findings, requirements, docset, disputed>>

BindRequirements(v) ==
    /\ v # requirements /\ requirements' = v
    /\ UNCHANGED <<facts, reviews, approvals, findings, docset, confirmed, disputed>>

\* A conflict about a field is found or resolved.
Dispute(f) == /\ disputed' = (disputed \cup {f}) \ (disputed \cap {f})
              /\ UNCHANGED <<facts, reviews, approvals, findings, requirements, docset, confirmed>>

PassportNext ==
    \/ \E p \in Person, f \in Field :
          SubmitFact(p, f) \/ \E d \in {"APPROVED", "REJECTED"} : DecideFact(p, f, d)
    \/ ValidateCurrent \/ ReplaceDocument \/ ConfirmSet
    \/ \E v \in Requirements : BindRequirements(v)
    \/ \E f \in Field : Dispute(f)

PassportSpec == PassportInit /\ [][PassportNext]_passportVars

-----------------------------------------------------------------------------
PassportTypeOK == /\ facts \in [Field -> Seq(FactRow)]
                  /\ \A f \in Field : DOMAIN reviews[f] = DOMAIN facts[f]
                  /\ findings \subseteq Field

\* A passport that passes the gate has no finding left that would block the
\* release, every fact was decided once, by somebody else, and no review of a
\* superseded fact is open.
PassportStands ==
    /\ PassportGate =>
          /\ findings = {}
          /\ \A f \in Field : \E a \in approvals :
                /\ a.by # CurrentFact(f).by
                /\ {b \in approvals : b.of = <<f, Len(facts[f])>>} = {a}
    /\ \A f \in Stated : \A i \in 1 .. Len(facts[f]) - 1 : reviews[f][i] = "SUPERSEDED"
=============================================================================
