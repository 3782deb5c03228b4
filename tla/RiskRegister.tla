---------------------------- MODULE RiskRegister ----------------------------
(***************************************************************************)
(* The risk register of a project: items submitted from evidence, decided  *)
(* by somebody else, summed to a reserve that is calculated twice, and     *)
(* checked once more at the stage gate against the items of that moment.   *)
(***************************************************************************)
EXTENDS Naturals, Sequences, FiniteSets

CONSTANTS
    Person, Model,
    Key,       \* risk keys the model declares
    Required,  \* those every project must have
    MaxItems,  \* bound: revisions of all items together
    MaxSets,   \* bound: document sets
    Nobody, NoRow

VARIABLES
    items,       \* [Key -> revisions, the last one current]
    reviews,     \* [Key -> status of the review task of each revision]
    approvals,
    calculation, \* the current reserve calculation
    model, docset, confirmed, disputed,
    guarded      \* whether the database has the triggers

riskVars == <<items, reviews, approvals, calculation, model, docset, confirmed, disputed, guarded>>

\* RiskItemRow; marked is the document set that invalidated it (0: none).
ItemRow == [by : Person, model : Model, docset : 1 .. MaxSets,
            status : {"IN_REVIEW", "VERIFIED", "REJECTED"},
            reviewer : Person \cup {Nobody}, marked : 0 .. MaxSets]

RiskInit ==
    /\ items = [k \in Key |-> <<>>] /\ reviews = [k \in Key |-> <<>>]
    /\ approvals = {} /\ calculation = NoRow
    /\ model \in Model /\ docset = 1 /\ confirmed = TRUE /\ disputed = {}
    /\ guarded \in BOOLEAN

-----------------------------------------------------------------------------
Registered == {k \in Key : items[k] # <<>>}

CurrentItem(k) == items[k][Len(items[k])]

\* tenderguard_protect_risk_item for an item that stays current.
ItemChangeAllowed(old, new) ==
    \/ /\ old.status = "IN_REVIEW" /\ new.status \in {"VERIFIED", "REJECTED"}
       /\ new = [old EXCEPT !.status = new.status, !.reviewer = new.reviewer]
       /\ new.reviewer # Nobody
    \/ /\ new = [old EXCEPT !.status = "IN_REVIEW", !.marked = new.marked]
       /\ new.marked # 0 /\ old.marked \in {0, new.marked}

\* Mutant: the review of the revision before stays as it is.
ReviewsKept(k) == reviews[k]

\* submit_risk supersedes the task of the revision it replaces.
ReviewsSuperseded(k) ==
    [i \in DOMAIN reviews[k] |-> IF i = Len(reviews[k]) THEN "SUPERSEDED" ELSE reviews[k][i]]

SubmitRisk(p, k) ==
    /\ confirmed /\ k \notin disputed
    /\ Cardinality(UNION {{i} \X DOMAIN items[i] : i \in Key}) < MaxItems
    /\ items' = [items EXCEPT ![k] = Append(@,
            [by |-> p, model |-> model, docset |-> docset, status |-> "IN_REVIEW",
             reviewer |-> Nobody, marked |-> 0])]
    /\ reviews' = [reviews EXCEPT ![k] = Append(ReviewsSuperseded(k), "PENDING")]
    /\ UNCHANGED <<approvals, calculation, model, docset, confirmed, disputed, guarded>>

\* _review_blockers.
RiskReviewable(p, k) ==
    /\ k \in Registered /\ confirmed /\ k \notin disputed
    /\ CurrentItem(k).status = "IN_REVIEW" /\ CurrentItem(k).by # p
    /\ CurrentItem(k).model = model /\ CurrentItem(k).docset = docset
    /\ reviews[k][Len(reviews[k])] = "PENDING"

Verdict(decision) == IF decision = "APPROVED" THEN "VERIFIED" ELSE "REJECTED"

DecideRisk(p, k, decision) ==
    LET n == Len(items[k]) IN
    /\ RiskReviewable(p, k)
    /\ items' = [items EXCEPT ![k][n].status = Verdict(decision), ![k][n].reviewer = p]
    /\ reviews' = [reviews EXCEPT ![k][n] = decision]
    /\ approvals' = approvals \cup {[of |-> <<k, n>>, by |-> p, decision |-> decision]}
    /\ UNCHANGED <<calculation, model, docset, confirmed, disputed, guarded>>

\* _require_verified_item_integrity.
ItemVerifies(k) ==
    LET row == CurrentItem(k) IN
    /\ row.status = "VERIFIED" /\ row.reviewer \notin {Nobody, row.by}
    /\ row.model = model /\ row.docset = docset
    /\ reviews[k][Len(reviews[k])] = "APPROVED"
    /\ [of |-> <<k, Len(items[k])>>, by |-> row.reviewer, decision |-> "APPROVED"] \in approvals

\* The signature of what a calculation sums: every current item, at its time.
Signature == [k \in Registered |-> <<Len(items[k]), CurrentItem(k)>>]

\* _calculation_blockers and the integrity of every item.
Calculable == /\ confirmed
              /\ Required \subseteq Registered
              /\ \A k \in Registered : ItemVerifies(k)

CalculateReserve ==
    /\ Calculable
    /\ calculation' = [inputs |-> Signature, model |-> model, docset |-> docset]
    /\ UNCHANGED <<items, reviews, approvals, model, docset, confirmed, disputed, guarded>>

\* risk_stage_blockers: the gate calculates the reserve again.
RiskGate ==
    /\ Calculable /\ calculation # NoRow
    /\ calculation = [inputs |-> Signature, model |-> model, docset |-> docset]

-----------------------------------------------------------------------------
\* _invalidate_derived_records: items, reviews and the calculation.
InvalidatedItem(row) == [row EXCEPT !.status = "IN_REVIEW", !.marked = docset + 1]

ReplacementAccepted ==
    guarded => \A k \in Registered : ItemChangeAllowed(CurrentItem(k), InvalidatedItem(CurrentItem(k)))

ReplaceDocument ==
    /\ docset < MaxSets /\ ReplacementAccepted
    /\ items' = [k \in Key |-> [i \in DOMAIN items[k] |->
            IF i = Len(items[k]) THEN InvalidatedItem(items[k][i]) ELSE items[k][i]]]
    /\ reviews' = [k \in Key |-> [i \in DOMAIN reviews[k] |-> "SUPERSEDED"]]
    /\ calculation' = NoRow
    /\ docset' = docset + 1 /\ confirmed' = FALSE
    /\ UNCHANGED <<approvals, model, disputed, guarded>>

ConfirmSet == /\ ~ confirmed /\ confirmed' = TRUE
              /\ UNCHANGED <<items, reviews, approvals, calculation, model, docset, disputed, guarded>>

BindModel(v) == /\ v # model /\ model' = v
                /\ UNCHANGED <<items, reviews, approvals, calculation, docset, confirmed, disputed, guarded>>

\* A conflict about the field of a key is found or resolved.
Dispute(k) == /\ disputed' = (disputed \cup {k}) \ (disputed \cap {k})
              /\ UNCHANGED <<items, reviews, approvals, calculation, model, docset, confirmed, guarded>>

RiskNext ==
    \/ \E p \in Person, k \in Key :
          SubmitRisk(p, k) \/ \E d \in {"APPROVED", "REJECTED"} : DecideRisk(p, k, d)
    \/ CalculateReserve \/ ReplaceDocument \/ ConfirmSet
    \/ \E v \in Model : BindModel(v)
    \/ \E k \in Key : Dispute(k)

RiskSpec == RiskInit /\ [][RiskNext]_riskVars

-----------------------------------------------------------------------------
RiskTypeOK == /\ items \in [Key -> Seq(ItemRow)]
              /\ \A k \in Key : DOMAIN reviews[k] = DOMAIN items[k]

\* The reserve that passes the gate sums what is registered now, every item
\* decided once and by somebody else, over this document set; and nothing
\* that was superseded is still to be decided.
ReserveStands ==
    /\ RiskGate =>
          /\ DOMAIN calculation.inputs = Registered
          /\ \A k \in Registered :
                LET row == CurrentItem(k)
                    decided == {a \in approvals : a.of = <<k, Len(items[k])>>}
                IN  /\ row.marked = 0 /\ row.docset = docset
                    /\ \E a \in decided : decided = {a} /\ a.by # row.by
    /\ \A k \in Registered : \A i \in 1 .. Len(items[k]) - 1 : reviews[k][i] = "SUPERSEDED"
=============================================================================
