----------------------------- MODULE GateEvidence -----------------------------
(***************************************************************************)
(* Evidence packages for the gates a bid release needs besides the         *)
(* business campaign: submitted, reviewed by somebody else, revocable, and *)
(* revalidated whenever a release is decided.                              *)
(*                                                                         *)
(* Reviews, revocations and releases take no common lock: a review and a   *)
(* release read first and commit later.                                    *)
(***************************************************************************)
EXTENDS Naturals, FiniteSets

CONSTANTS
    Person,
    Package,      \* evidence packages of one gate
    Build,        \* application builds
    MaxAge,       \* maximum_evidence_age_days of the gate's profile
    LastDay,      \* bound of the calendar
    NoRow

VARIABLES
    packages,     \* [Package -> row or NoRow]
    approvals,    \* [Package -> review row or NoRow]
    revoked,      \* packages with a revocation row
    unreadable,   \* packages with an artifact the store no longer returns
    reviewing,    \* [Person -> the review a person is about to commit]
    releasing,    \* the release that was validated and not yet committed
    releases,     \* bid releases, with what was true when they were validated
    qualified,    \* builds whose business campaign validates (external)
    build, day

gateVars == <<packages, approvals, revoked, unreadable, reviewing, releasing, releases>>
evidenceVars == <<gateVars, qualified, build, day>>

\* ProductionGateEvidencePackageRow.
PackageRow == [by : Person, executedBy : Person, build : Build, completed : 0 .. LastDay]

GateInit ==
    /\ packages = [p \in Package |-> NoRow] /\ approvals = [p \in Package |-> NoRow]
    /\ revoked = {} /\ unreadable = {} /\ releases = {}
    /\ reviewing = [a \in Person |-> NoRow] /\ releasing = NoRow
    /\ qualified \in {{}, Build}
    /\ build \in Build /\ day = 0

-----------------------------------------------------------------------------
\* submit_package, of the running build and not yet stale.
SubmitPackage(a, executor, p, completed) ==
    /\ packages[p] = NoRow
    /\ completed <= day /\ completed + MaxAge >= day
    /\ packages' = [packages EXCEPT ![p] =
            [by |-> a, executedBy |-> executor, build |-> build, completed |-> completed]]
    /\ UNCHANGED <<approvals, revoked, unreadable, reviewing, releasing, releases, qualified, build, day>>

\* _revalidate_row_basis with _validate_package_basis and _validate_artifacts.
BasisValid(p) == /\ packages[p].build = build
                 /\ packages[p].completed + MaxAge >= day
                 /\ p \notin unreadable

\* review_package reads what it decides over ...
BeginReview(a, p, decision) ==
    /\ reviewing[a] = NoRow
    /\ packages[p] # NoRow /\ approvals[p] = NoRow
    /\ a \notin {packages[p].by, packages[p].executedBy}
    /\ decision = "APPROVED" => BasisValid(p)
    /\ reviewing' = [reviewing EXCEPT ![a] = [package |-> p, decision |-> decision]]
    /\ UNCHANGED <<packages, approvals, revoked, unreadable, releasing, releases, qualified, build, day>>

\* Mutant: a package may have several reviews, of which the last counts.
AlwaysInsertable(p) == TRUE

\* ... and inserts its review; the table has one per package.
Insertable(p) == approvals[p] = NoRow

CommitReview(a) ==
    LET p == reviewing[a].package IN
    /\ reviewing[a] # NoRow
    /\ approvals' = IF Insertable(p)
            THEN [approvals EXCEPT ![p] = [by |-> a, decision |-> reviewing[a].decision]]
            ELSE approvals
    /\ reviewing' = [reviewing EXCEPT ![a] = NoRow]
    /\ UNCHANGED <<packages, revoked, unreadable, releasing, releases, qualified, build, day>>

Approved(p) == approvals[p] # NoRow /\ approvals[p].decision = "APPROVED"

\* revoke_package.
RevokePackage(p) ==
    /\ Approved(p) /\ p \notin revoked
    /\ revoked' = revoked \cup {p}
    /\ UNCHANGED <<packages, approvals, unreadable, reviewing, releasing, releases, qualified, build, day>>

\* gate_binding_valid with _row_audit_valid.
GateBindingValid(p) ==
    /\ Approved(p) /\ BasisValid(p)
    /\ approvals[p].by \notin {packages[p].by, packages[p].executedBy}
    /\ p \notin revoked

\* decide_bid_release: the whole qualification is validated
\* (_production_qualification_evidence_valid), then the release is committed.
BeginRelease(p) ==
    /\ releasing = NoRow
    /\ build \in qualified /\ GateBindingValid(p)
    /\ releasing' = [package |-> p, build |-> build, day |-> day]
    /\ UNCHANGED <<packages, approvals, revoked, unreadable, reviewing, releases, qualified, build, day>>

CommitRelease ==
    /\ releasing # NoRow
    /\ releases' = releases \cup {[package |-> releasing.package, build |-> releasing.build,
                                         day |-> releasing.day]}
    /\ releasing' = NoRow
    /\ UNCHANGED <<packages, approvals, revoked, unreadable, reviewing, qualified, build, day>>

-----------------------------------------------------------------------------
DeployBuild(b) == /\ b # build /\ build' = b
                  /\ UNCHANGED <<gateVars, qualified, day>>

PassDay == /\ day < LastDay /\ day' = day + 1
           /\ UNCHANGED <<gateVars, qualified, build>>

LoseArtifact(p) ==
    /\ packages[p] # NoRow
    /\ unreadable' = unreadable \cup {p}
    /\ UNCHANGED <<packages, approvals, revoked, reviewing, releasing, releases, qualified, build, day>>

GateNext ==
    \/ \E a, x \in Person, p \in Package, t \in 0 .. LastDay : SubmitPackage(a, x, p, t)
    \/ \E a \in Person, p \in Package, d \in {"APPROVED", "REJECTED"} : BeginReview(a, p, d)
    \/ \E a \in Person : CommitReview(a)
    \/ \E p \in Package : RevokePackage(p) \/ BeginRelease(p) \/ LoseArtifact(p)
    \/ CommitRelease \/ PassDay
    \/ \E b \in Build : DeployBuild(b)

GateSpec == GateInit /\ [][GateNext]_evidenceVars

-----------------------------------------------------------------------------
GateTypeOK ==
    /\ \A p \in Package : packages[p] # NoRow => packages[p] \in PackageRow
    /\ revoked \subseteq Package /\ unreadable \subseteq Package

\* A bid is released only on a package that somebody other than its submitter
\* and executor approved while it was fresh and of the build it was released
\* with; a later review never overwrites the one the release was based on.
ReleasedOnReviewedEvidence ==
    \A r \in releases :
        /\ approvals[r.package].decision = "APPROVED"
        /\ approvals[r.package].by \notin {packages[r.package].by, packages[r.package].executedBy}
        /\ packages[r.package].build = r.build
        /\ packages[r.package].completed + MaxAge >= r.day
=============================================================================
