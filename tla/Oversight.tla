------------------------------ MODULE Oversight ------------------------------
(***************************************************************************)
(* Who may decide what, and what the decisions can be relied on for:       *)
(* memberships, governed versions, expert approvals, dispatched rework,    *)
(* qualification campaigns, gate evidence, actuals, request quotas, audit  *)
(* anchors and restores.  The components share no state, so a behaviour    *)
(* runs one of them ("part") and leaves the variables of the others off.   *)
(***************************************************************************)
EXTENDS Naturals, Sequences, FiniteSets, TLC

CONSTANTS
    \* One meaning each in every component that has it.
    Person, Build, Policy, Nobody, NoRow, MaxSets, MaxAge, LastDay,
    \* ProjectAccess
    Member, Creator, Role, MaxRevisions, NoChange,
    \* Governance
    Version, VersionKind, AdapterKind, Purpose, LastValidDay, MaxBindings, NoVersion,
    \* Approvals
    Expert, Subject, Change, Upload, MaxStamps, NoTask, NoPage,
    \* ReworkDispatch
    Worker, Request, Stage, Blocked, MaxAttempts, MaxVersion, NoHolder,
    \* BusinessQualification
    Examiner, Case, Historical, Open,
    \* GateEvidence
    Package,
    \* Actuals
    MaxActuals, FinalOutcome,
    \* RateLimits
    Call, Caller, Organization, CallerLimit, OrganizationLimit, WindowSeconds, LastSecond,
    NoBucket,
    \* AuditAnchors
    Chain, Admin, Checkpoint, Key, LastMoment,
    \* Recovery
    Snapshot, Basis, Golden, Defect, Evidence, MaxRPO, MaxRTO, LastHour, MaxDerived, NoExercise,
    Off

VARIABLES
    part,
    claims, members, locked, change,
    versions, versionEvents, reviewing, bindings, bindingEvents, qualifications, day,
    tasks, records, pages, policy, confirmed, candidate, uploads, stamp,
    project, requests, event, dispatches, commands, findings, qualified, holding,
    campaign, prepared, references, reviews, build,
    packages, approvals, revoked, unreadable, gateReviewing, releasing, releases,
    validated, gateBuild, gateDay,
    rows, actualTasks, actualApprovals, outcomes, disputed, bound,
    buckets, calls, second,
    chains, objects, checkpoints, receipts, signed, activeKey, keyring, moment,
    live, store, dbBackups, storeBackups, fixedAt, hour, exercise

Access == INSTANCE ProjectAccess WITH Person <- Member
Versions == INSTANCE Governance WITH
    Author <- Person, Kind <- VersionKind, LastDay <- LastValidDay
Tasks == INSTANCE Approvals
Rework == INSTANCE ReworkDispatch
Campaign == INSTANCE BusinessQualification WITH Person <- Examiner
Gates == INSTANCE GateEvidence WITH
    reviewing <- gateReviewing, qualified <- validated, build <- gateBuild, day <- gateDay
Outcomes == INSTANCE Actuals WITH
    Outcome <- FinalOutcome, tasks <- actualTasks, approvals <- actualApprovals
Rates == INSTANCE RateLimits
Anchors == INSTANCE AuditAnchors
Restores == INSTANCE Recovery

-----------------------------------------------------------------------------
(* What the components assume of their constants: no row is NULL, nobody is a   *)
(* person, and bounds are numbers.                                              *)

\* A change of a membership that a transaction is about to insert.
ChangeRow == [of : Member, row : Access!Revision]

\* What a worker knows of the event it claimed.
HoldingRow ==
    [request : Request,
     step    : {"claimed", "looked", "handled", "refused", "failed"}]

\* What is stored of a reference and of the review of a discrepancy.
ReferenceRow == [by : Examiner, preparedBy : Examiner \cup {Nobody}]
ReviewRow == [by : Examiner, decision : {"ACCEPTED", "REJECTED"}]

\* A review, one that is about to be committed, and a release likewise.
GateReview == [by : Person, decision : {"APPROVED", "REJECTED"}]
OpenGateReview == [package : Package, decision : {"APPROVED", "REJECTED"}]
GateRelease == [package : Package, build : Build, day : Nat]

\* An exercise of the recovery.
ExerciseRow ==
    [incident : Nat, point : Nat, started : Nat, taken : Nat,
     defect : Defect, verdict : {"open", "PASSED", "FAILED"}]

\* The creator is a person, and no change is NULL.
AccessConstants ==
    /\ Creator \in Member
    /\ NoChange \notin ChangeRow

\* No row and no author is NULL.
VersionConstants ==
    NoVersion \notin Person \cup Version \cup Versions!VersionRow \cup Versions!BindingRow

\* No task is NULL.
TaskConstants ==
    /\ MaxStamps \in Nat
    /\ NoTask \notin Tasks!TaskRow

\* No row is NULL.
ReworkConstants ==
    /\ MaxAttempts \in Nat
    /\ NoRow \notin Rework!RequestRow \cup Rework!DispatchRow \cup HoldingRow

\* No row is NULL or still to be written, and nobody is no person.
CampaignConstants ==
    /\ Historical \subseteq Case
    /\ Nobody \notin Examiner
    /\ NoRow \notin Campaign!CampaignRow \cup ReferenceRow \cup ReviewRow
    /\ Open \notin ReviewRow \cup {NoRow}

\* No row is NULL.
GateConstants ==
    /\ LastDay \in Nat
    /\ NoRow \notin Gates!PackageRow \cup GateReview \cup OpenGateReview \cup GateRelease

\* Nobody is no person, and no row is NULL.
ActualsConstants ==
    /\ MaxActuals \in Nat
    /\ Nobody \notin Person /\ NoRow \notin Outcomes!Row

\* The bucket of the organization is nobody's own, and no row is NULL.
RateConstants ==
    /\ IsFiniteSet(Call)
    /\ NoBucket \notin Rates!BucketRow
    /\ Organization \notin Caller
    /\ CallerLimit \in Nat /\ OrganizationLimit \in Nat
    /\ WindowSeconds \in Nat \ {0} /\ LastSecond \in Nat

\* A project starts with a document set, and no exercise is NULL.
RestoreConstants ==
    /\ MaxSets \in Nat \ {0} /\ LastHour \in Nat \ {0} /\ MaxRPO \in Nat
    /\ "none" \in Defect
    /\ NoExercise \notin ExerciseRow

ASSUME OversightAssumption ==
    /\ AccessConstants /\ VersionConstants /\ TaskConstants /\ ReworkConstants
    /\ CampaignConstants /\ GateConstants /\ ActualsConstants /\ RateConstants
    /\ RestoreConstants

-----------------------------------------------------------------------------
accessVars == <<claims, members, locked, change>>
versionVars == <<versions, versionEvents, reviewing, bindings, bindingEvents, qualifications, day>>
taskVars == <<tasks, records, pages, policy, confirmed, candidate, uploads, stamp>>
reworkVars == <<project, requests, event, dispatches, commands, findings, qualified, holding>>
campaignVars == <<campaign, prepared, references, reviews, build>>
gateVars == <<packages, approvals, revoked, unreadable, gateReviewing, releasing, releases,
              validated, gateBuild, gateDay>>
actualsVars == <<rows, actualTasks, actualApprovals, outcomes, disputed, bound>>
rateVars == <<buckets, calls, second>>
anchorVars == <<chains, objects, checkpoints, receipts, signed, activeKey, keyring, moment>>
restoreVars == <<live, store, dbBackups, storeBackups, fixedAt, hour, exercise>>

vars == <<part, accessVars, versionVars, taskVars, reworkVars, campaignVars, gateVars,
          actualsVars, rateVars, anchorVars, restoreVars>>

AccessOff == claims = Off /\ members = Off /\ locked = Off /\ change = Off
VersionsOff == /\ versions = Off /\ versionEvents = Off /\ reviewing = Off /\ bindings = Off
               /\ bindingEvents = Off /\ qualifications = Off /\ day = Off
TasksOff == /\ tasks = Off /\ records = Off /\ pages = Off /\ policy = Off
            /\ confirmed = Off /\ candidate = Off /\ uploads = Off /\ stamp = Off
ReworkOff == /\ project = Off /\ requests = Off /\ event = Off /\ dispatches = Off
             /\ commands = Off /\ findings = Off /\ qualified = Off /\ holding = Off
CampaignOff == campaign = Off /\ prepared = Off /\ references = Off /\ reviews = Off /\ build = Off
GatesOff == /\ packages = Off /\ approvals = Off /\ revoked = Off /\ unreadable = Off
            /\ gateReviewing = Off /\ releasing = Off /\ releases = Off
            /\ validated = Off /\ gateBuild = Off /\ gateDay = Off
ActualsOff == /\ rows = Off /\ actualTasks = Off /\ actualApprovals = Off
              /\ outcomes = Off /\ disputed = Off /\ bound = Off
RatesOff == buckets = Off /\ calls = Off /\ second = Off
AnchorsOff == /\ chains = Off /\ objects = Off /\ checkpoints = Off /\ receipts = Off
              /\ signed = Off /\ activeKey = Off /\ keyring = Off /\ moment = Off
RestoresOff == /\ live = Off /\ store = Off /\ dbBackups = Off /\ storeBackups = Off
               /\ fixedAt = Off /\ hour = Off /\ exercise = Off

Init ==
    /\ part \in {"access", "versions", "tasks", "rework", "campaign", "gates", "actuals",
                 "rates", "anchors", "restores"}
    /\ IF part = "access" THEN Access!Init ELSE AccessOff
    /\ IF part = "versions" THEN Versions!GovInit ELSE VersionsOff
    /\ IF part = "tasks" THEN Tasks!AppInit ELSE TasksOff
    /\ IF part = "rework" THEN Rework!ReworkInit ELSE ReworkOff
    /\ IF part = "campaign" THEN Campaign!CampaignInit ELSE CampaignOff
    /\ IF part = "gates" THEN Gates!GateInit ELSE GatesOff
    /\ IF part = "actuals" THEN Outcomes!ActualsInit ELSE ActualsOff
    /\ IF part = "rates" THEN Rates!RateInit ELSE RatesOff
    /\ IF part = "anchors" THEN Anchors!AnchorInit ELSE AnchorsOff
    /\ IF part = "restores" THEN Restores!RecoveryInit ELSE RestoresOff

\* The variables of the components that do not run stay off.
Frame(component, variables) == IF part = component THEN TRUE ELSE UNCHANGED variables

Next ==
    /\ UNCHANGED part
    /\ \/ part = "access" /\ Access!Next
       \/ part = "versions" /\ Versions!GovNext
       \/ part = "tasks" /\ Tasks!AppNext
       \/ part = "rework" /\ Rework!ReworkNext
       \/ part = "campaign" /\ Campaign!CampaignNext
       \/ part = "gates" /\ Gates!GateNext
       \/ part = "actuals" /\ Outcomes!ActualsNext
       \/ part = "rates" /\ Rates!RateNext
       \/ part = "anchors" /\ Anchors!AnchorNext
       \/ part = "restores" /\ Restores!RecoveryNext
    /\ Frame("access", accessVars) /\ Frame("versions", versionVars)
    /\ Frame("tasks", taskVars) /\ Frame("rework", reworkVars)
    /\ Frame("campaign", campaignVars) /\ Frame("gates", gateVars)
    /\ Frame("actuals", actualsVars) /\ Frame("rates", rateVars)
    /\ Frame("anchors", anchorVars) /\ Frame("restores", restoreVars)

Spec == Init /\ [][Next]_vars

\* People of a group, and things of one kind, differ in nothing but their names;
\* the creator of the project has no symmetric peer.
Symmetry ==
    Permutations(Person) \cup Permutations(Member \ {Creator})
        \cup Permutations(Build) \cup Permutations(Policy)

-----------------------------------------------------------------------------
\* A project always has an active owner (_require_another_active_owner).
OwnerRemains == part = "access" => Access!TypeOK /\ Access!OwnerRemains

\* An approval that a release counts was given after the last replacement of a
\* confirmed document set, and every decision has its one record (plan, decide,
\* _invalidate_derived_records).
ApprovalsAreCurrent ==
    part = "tasks" => Tasks!AppTypeOK /\ Tasks!DecisionsAgree /\ Tasks!ApprovalsAreCurrent

\* A rework request becomes one command or one finding, before its event is
\* acknowledged.
DispatchedOnce ==
    part = "rework" => /\ Rework!ReworkTypeOK
                       /\ Rework!DispatchedOnce /\ Rework!AcknowledgedWasDispatched

\* A campaign that passed holds no number judged by its author, and the release
\* accepts it (approve_campaign, _production_qualification_evidence_valid).
CampaignStands ==
    part = "campaign" => /\ Campaign!CampaignTypeOK
                         /\ Campaign!PassedIsIndependent /\ Campaign!PassedCampaignVerifies

\* What is relied on was reviewed and stays what it was: versions that are bound
\* verify against the audit chain, and a bid is released on a package that
\* somebody else reviewed.
ReliedOnStands ==
    /\ part = "versions" => Versions!GovTypeOK /\ Versions!GovernedContentVerifies
    /\ part = "gates" => Gates!GateTypeOK /\ Gates!ReleasedOnReviewedEvidence

\* Nobody judges a calibration example that rests on a number of their own, and
\* every review task of the chain of actuals belongs to the row it decides.
LearnedIndependently ==
    part = "actuals" => Outcomes!ActualsTypeOK /\ Outcomes!LearnedIndependently /\ Outcomes!LinksHold

\* No caller and no organization is served beyond its quota (consume).
QuotaHolds == part = "rates" => Rates!RateTypeOK /\ Rates!QuotaHolds

\* A valid anchor proves that no event it covers is missing (anchor_status).
AnchorProvesHistory ==
    part = "anchors" => Anchors!ReceiptsAreIndependent /\ Anchors!AnchorProvesHistory

\* A restore that passed verification is complete and has every golden snapshot;
\* unless its point was declared too late, it lost no more than the approved
\* objective allows (verify).
PassedRestoreIsComplete ==
    part = "restores" => Restores!RecoveryTypeOK /\ Restores!PassedRestoreIsComplete

\* Only somebody who owns the project appends to a membership history, a row
\* that the trigger of the table accepts.
OwnersAppend ==
    \A q \in {p \in Member : members'[p] # members[p]} :
        LET row == members'[q][Len(members'[q])] IN
        Access!ActiveOwner(row.by) /\ Access!ChainAccepts(q, row)

\* A version, a task and a campaign change as the update triggers of their
\* tables accept.
VersionsChangeLegally ==
    \A v \in Version :
        versions[v] \notin {NoVersion, versions'[v]} =>
            Versions!VersionChangeAllowed(versions[v], versions'[v])

TasksChangeLegally ==
    \A t \in Tasks!TaskId :
        tasks[t] \notin {NoTask, tasks'[t]} => Tasks!TaskChangeAllowed(tasks[t], tasks'[t])

CampaignChangesLegally ==
    campaign \notin {NoRow, campaign'} => Campaign!CampaignChangeAllowed(campaign, campaign')

\* So do the rows of actuals, which enter through a pending review.
ActualsChangeLegally ==
    \A r \in {x \in Outcomes!Ref : rows'[x] # rows[x]} :
        IF rows[r] = NoRow
        THEN Outcomes!InitialRow(rows'[r]) /\ Outcomes!InitialTask(actualTasks'[r])
        ELSE CASE r[1] = "actual" -> Outcomes!ActualChangeAllowed(rows[r], rows'[r])
               [] r[1] = "variance" -> Outcomes!VarianceChangeAllowed(rows[r], rows'[r])
               [] r[1] = "example" -> Outcomes!ExampleChangeAllowed(rows[r], rows'[r])

\* The services never try an update of a row that the trigger of its table
\* refuses, and only active owners append to a membership history.
HistoriesAccepted ==
    [][/\ part = "access" => OwnersAppend
       /\ part = "versions" => VersionsChangeLegally
       /\ part = "tasks" => TasksChangeLegally
       /\ part = "campaign" => CampaignChangesLegally
       /\ part = "actuals" => ActualsChangeLegally]_vars
=============================================================================
