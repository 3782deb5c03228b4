------------------------------- MODULE Actuals -------------------------------
(***************************************************************************)
(* What a finished project teaches: an actual is recorded and reviewed,    *)
(* compared with the released forecast, the variance is reviewed, and an   *)
(* example for calibration is approved.  A new fact for the same key       *)
(* supersedes the recorded one, whatever was built on it.                  *)
(*                                                                         *)
(* Every command holds the project row.  A page may name any row that ever *)
(* existed.  The deferred triggers compare row, task and approval record.  *)
(***************************************************************************)
EXTENDS Naturals, FiniteSets

CONSTANTS
    Person,
    MaxActuals,  \* bound: actuals recorded for one key
    Policy,      \* actuals_policy versions that may be bound
    Outcome,     \* observations that say how the project ended
    Nobody, NoRow

VARIABLES
    rows,      \* [Ref -> row or NoRow]: the three tables
    tasks,     \* [Ref -> status of the review task]
    approvals, \* approval_records
    outcomes,  \* verified outcome evidence
    disputed,  \* an unresolved conflict about the outcome
    bound      \* the bound policy

actualsVars == <<rows, tasks, approvals, outcomes, disputed, bound>>

Index == 1 .. MaxActuals
Kind == {"actual", "variance", "example"}
Ref == Kind \X Index

\* ActualRecordRow, VarianceRecordRow and CalibrationExampleRow, as far as the
\* triggers treat them alike; basis is what an actual rests on.
Row == [by : Person, policy : Policy, basis : SUBSET Outcome, current : BOOLEAN,
        status : {"IN_REVIEW", "VERIFIED", "REJECTED"}, reviewedBy : Person \cup {Nobody}]

ActualsInit ==
    /\ rows = [r \in Ref |-> NoRow] /\ tasks = [r \in Ref |-> "none"]
    /\ approvals = {} /\ outcomes = {} /\ disputed = FALSE
    /\ bound \in Policy

-----------------------------------------------------------------------------
NewRow(a, basis) == [by |-> a, policy |-> bound, basis |-> basis, current |-> TRUE,
                     status |-> "IN_REVIEW", reviewedBy |-> Nobody]

Decided(row, a, decision) ==
    [row EXCEPT !.status = IF decision = "APPROVED" THEN "VERIFIED" ELSE "REJECTED",
                !.reviewedBy = a]

\* _project_outcome_evidence.
OutcomeKnown == outcomes # {} /\ ~ disputed

Recorded == {i \in Index : rows[<<"actual", i>>] # NoRow}

Superseded(status) == "SUPERSEDED"

\* record_actual: the previous row of the key is no longer current and its
\* task, decided or not, is superseded.
RecordActual(a) ==
    \E i \in Index :
        LET previous == <<"actual", i - 1>> IN
        /\ i = Cardinality(Recorded) + 1 /\ OutcomeKnown
        /\ rows' = [r \in Ref |->
                IF r = <<"actual", i>> THEN NewRow(a, outcomes)
                ELSE IF r = previous THEN [rows[r] EXCEPT !.current = FALSE]
                ELSE rows[r]]
        /\ tasks' = [r \in Ref |->
                IF r = <<"actual", i>> THEN "PENDING"
                ELSE IF r = previous THEN Superseded(tasks[r]) ELSE tasks[r]]
        /\ UNCHANGED <<approvals, outcomes, disputed, bound>>

\* A review that may be decided by a: four eyes, and a task that waits.
Reviewable(a, r) == /\ rows[r] # NoRow
                    /\ rows[r].status = "IN_REVIEW"
                    /\ rows[r].by # a
                    /\ tasks[r] = "PENDING"
                    /\ rows[r].policy = bound

\* The approval record that belongs to a verified row.
ApprovedBy(r) == [ref |-> r, decision |-> "APPROVED", by |-> rows[r].reviewedBy]

\* _require_verified_actual_integrity.
VerifiedActual(i) ==
    LET r == <<"actual", i>> IN
    /\ rows[r] # NoRow
    /\ rows[r].current /\ rows[r].status = "VERIFIED"
    /\ rows[r].reviewedBy # rows[r].by
    /\ rows[r].policy = bound
    /\ OutcomeKnown /\ rows[r].basis = outcomes
    /\ tasks[r] = "APPROVED" /\ ApprovedBy(r) \in approvals

\* _require_verified_variance_integrity.
VerifiedVariance(i) ==
    LET r == <<"variance", i>> IN
    /\ rows[r] # NoRow
    /\ rows[r].status = "VERIFIED" /\ rows[r].reviewedBy # rows[r].by
    /\ rows[r].policy = bound
    /\ tasks[r] = "APPROVED" /\ ApprovedBy(r) \in approvals

Decide(a, r, decision) ==
    /\ rows' = [rows EXCEPT ![r] = Decided(@, a, decision)]
    /\ tasks' = [tasks EXCEPT ![r] = decision]
    /\ approvals' = approvals \cup {[ref |-> r, decision |-> decision, by |-> a]}
    /\ UNCHANGED <<outcomes, disputed, bound>>

\* _actual_review_blockers.
ActualReviewable(a, i) == /\ Reviewable(a, <<"actual", i>>)
                          /\ rows[<<"actual", i>>].current
                          /\ OutcomeKnown /\ rows[<<"actual", i>>].basis = outcomes

DecideActual(a, i, decision) ==
    ActualReviewable(a, i) /\ Decide(a, <<"actual", i>>, decision)

\* compare_to_forecast: one variance for an actual.
Compare(a, i) ==
    LET r == <<"variance", i>> IN
    /\ VerifiedActual(i) /\ rows[r] = NoRow
    /\ rows' = [rows EXCEPT ![r] = NewRow(a, {})]
    /\ tasks' = [tasks EXCEPT ![r] = "PENDING"]
    /\ UNCHANGED <<approvals, outcomes, disputed, bound>>

\* _variance_review_blockers.
VarianceReviewable(a, i) == Reviewable(a, <<"variance", i>>) /\ VerifiedActual(i)

\* build_calibration_example: an approved variance becomes an example by its
\* reviewer.
Example(a, i, decision) ==
    IF decision = "APPROVED" THEN NewRow(a, {}) ELSE rows[<<"example", i>>]

DecideVariance(a, i, decision) ==
    LET r == <<"variance", i>>
        example == <<"example", i>>
    IN
    /\ VarianceReviewable(a, i)
    /\ rows' = [rows EXCEPT ![r] = Decided(@, a, decision), ![example] = Example(a, i, decision)]
    /\ tasks' = [tasks EXCEPT ![r] = decision,
            ![example] = IF decision = "APPROVED" THEN "PENDING" ELSE @]
    /\ approvals' = approvals \cup {[ref |-> r, decision |-> decision, by |-> a]}
    /\ UNCHANGED <<outcomes, disputed, bound>>

\* Everybody whose work an example rests on.
Contributors(i) ==
    {rows[r].by : r \in Kind \X {i}} \cup {rows[r].reviewedBy : r \in {"actual", "variance"} \X {i}}

\* Mutant: only the reviewer of the variance is excluded.
ReviewableByContributor(a, i) ==
    /\ Reviewable(a, <<"example", i>>)
    /\ VerifiedActual(i) /\ VerifiedVariance(i)

\* _calibration_review_blockers.
ExampleReviewable(a, i) == /\ Reviewable(a, <<"example", i>>)
                           /\ a \notin Contributors(i)
                           /\ VerifiedActual(i) /\ VerifiedVariance(i)

DecideExample(a, i, decision) ==
    ExampleReviewable(a, i) /\ Decide(a, <<"example", i>>, decision)

-----------------------------------------------------------------------------
\* The rest of the system: outcome evidence is verified, conflicts about it
\* come and go, another policy is bound.
VerifyOutcome(o) == /\ outcomes' = outcomes \cup {o}
                    /\ UNCHANGED <<rows, tasks, approvals, disputed, bound>>

Dispute == /\ disputed' = ~ disputed
           /\ UNCHANGED <<rows, tasks, approvals, outcomes, bound>>

BindPolicy(p) == /\ p # bound /\ bound' = p
                 /\ UNCHANGED <<rows, tasks, approvals, outcomes, disputed>>

ActualsNext ==
    \/ \E a \in Person : RecordActual(a)
    \/ \E a \in Person, i \in Index :
          \/ Compare(a, i)
          \/ \E d \in {"APPROVED", "REJECTED"} :
                DecideActual(a, i, d) \/ DecideVariance(a, i, d) \/ DecideExample(a, i, d)
    \/ \E o \in Outcome : VerifyOutcome(o)
    \/ Dispute
    \/ \E p \in Policy : BindPolicy(p)

ActualsSpec == ActualsInit /\ [][ActualsNext]_actualsVars

-----------------------------------------------------------------------------
\* The update triggers: of an actual ...
ActualChangeAllowed(old, new) ==
    /\ new = [old EXCEPT !.current = new.current, !.status = new.status, !.reviewedBy = new.reviewedBy]
    /\ old.current
    /\ \/ ~ new.current /\ new = [old EXCEPT !.current = FALSE]
       \/ /\ new.current /\ old.status = "IN_REVIEW"
          /\ new.status \in {"VERIFIED", "REJECTED"} /\ new.reviewedBy # Nobody

\* ... of a variance ...
VarianceChangeAllowed(old, new) ==
    /\ new = [old EXCEPT !.status = new.status, !.reviewedBy = new.reviewedBy]
    /\ old.status = "IN_REVIEW"
    /\ new.status \in {"VERIFIED", "REJECTED"} /\ new.reviewedBy # Nobody

\* ... and of an example.
ExampleChangeAllowed(old, new) ==
    /\ new = [old EXCEPT !.status = new.status, !.reviewedBy = new.reviewedBy]
    /\ old.status = "IN_REVIEW"
    /\ new.status \in {"VERIFIED", "REJECTED"} /\ new.reviewedBy # Nobody

\* The insert trigger: rows enter through a pending review ...
InitialRow(row) == row.status = "IN_REVIEW" /\ row.reviewedBy = Nobody /\ row.current

\* ... and so do their tasks.
InitialTask(status) == status = "PENDING"

Records(r) == {p \in approvals : p.ref = r}

StatusOf(decision) == IF decision = "APPROVED" THEN "VERIFIED" ELSE "REJECTED"

\* The deferred trigger of tasks and approval records.
TaskLinked(r) ==
    \/ /\ tasks[r] = "PENDING"
       /\ rows[r].status = "IN_REVIEW" /\ Records(r) = {}
    \/ /\ tasks[r] \in {"APPROVED", "REJECTED"}
       /\ rows[r].status = StatusOf(tasks[r])
       /\ Records(r) = {[ref |-> r, decision |-> tasks[r], by |-> rows[r].reviewedBy]}
    \/ /\ r[1] = "actual" /\ tasks[r] = "SUPERSEDED"
       /\ ~ rows[r].current
       /\ Cardinality(Records(r)) = IF rows[r].status = "IN_REVIEW" THEN 0 ELSE 1

\* The deferred trigger of the three tables: a pending row, ...
PendingLinked(r) == tasks[r] = "PENDING" =>
    /\ rows[r].status = "IN_REVIEW" /\ rows[r].reviewedBy = Nobody
    /\ rows[r].current /\ Records(r) = {}

\* ... a decided one ...
DecidedLinked(r) == tasks[r] \in {"APPROVED", "REJECTED"} =>
    /\ Cardinality(Records(r)) = 1
    /\ rows[r].status = StatusOf(tasks[r]) /\ rows[r].current
    /\ rows[r].reviewedBy \notin {Nobody, rows[r].by}

\* ... and what its approval record says.
EvidenceLinked(r) == tasks[r] \in {"APPROVED", "REJECTED"} =>
    \A p \in Records(r) : p.decision = tasks[r] /\ p.by = rows[r].reviewedBy

-----------------------------------------------------------------------------
ActualsTypeOK == /\ rows \in [Ref -> Row \cup {NoRow}]
                 /\ outcomes \subseteq Outcome /\ bound \in Policy

\* What the deferred triggers check of the rows a transaction touched holds of
\* every row of the three tables, also of those a later fact superseded.
LinksHold == \A r \in Ref : rows[r] # NoRow =>
    /\ TaskLinked(r) /\ PendingLinked(r) /\ DecidedLinked(r) /\ EvidenceLinked(r)

\* Nobody approves an example they contributed to: recorder, verifier,
\* classifier and variance reviewer are others, and the rows it rests on were
\* verified by somebody else than their authors.
LearnedIndependently ==
    \A i \in Index : rows[<<"example", i>>] # NoRow =>
        /\ \A r \in {"actual", "variance"} \X {i} :
              rows[r].status = "VERIFIED" /\ rows[r].reviewedBy # rows[r].by
        /\ rows[<<"example", i>>].reviewedBy \notin Contributors(i)
=============================================================================
