------------------------------ MODULE Governance ------------------------------
(***************************************************************************)
(* Controlled versions of the organization (catalogs, policies,            *)
(* qualifications) and their bindings to the purposes of one project.      *)
(*                                                                         *)
(* A version is drafted by one owner of its kind and approved by another;  *)
(* a project binds at most one version to a purpose.  Both tables are      *)
(* believed only as far as the audit chain tells the same story, so each   *)
(* row is modelled together with the events that were recorded for it.     *)
(* Approvers load a version, then approve it in a second transaction.      *)
(***************************************************************************)
EXTENDS Naturals, Sequences

CONSTANTS
    Author,      \* principals
    Version,     \* identifiers of controlled_versions rows
    Kind,        \* kinds of versions
    AdapterKind, \* the kind "adapter_qualification"
    Purpose,     \* purposes of bindings
    LastDay,     \* bound of the calendar
    MaxBindings, \* bound: bindings recorded for the project
    NoVersion

VARIABLES
    versions,       \* [Version -> row or NoVersion]
    versionEvents,  \* [Version -> Seq of audit events of the version]
    reviewing,      \* [Author -> version a reviewer has decided to approve]
    bindings,       \* [Purpose -> row or NoVersion]
    bindingEvents,  \* Seq of controlled_version_bound events of the project
    qualifications, \* adapter_qualifications rows, keyed by their version
    day             \* today

governanceVars == <<versions, versionEvents, reviewing, bindings, bindingEvents,
                    qualifications, day>>

\* ControlledVersionRow.  validUntil is the expiry an adapter qualification
\* carries in its payload.
VersionRow == [kind : Kind, createdBy : Author, status : {"DRAFT", "APPROVED"},
               approvedBy : Author \cup {NoVersion}, validUntil : 0 .. LastDay]

\* ProjectControlledVersionRow.
BindingRow == [version : Version, by : Author]

GovInit == /\ versions = [v \in Version |-> NoVersion]
           /\ versionEvents = [v \in Version |-> <<>>]
           /\ reviewing = [a \in Author |-> NoVersion]
           /\ bindings = [p \in Purpose |-> NoVersion]
           /\ bindingEvents = <<>>
           /\ qualifications = {}
           /\ day = 0

-----------------------------------------------------------------------------
Exists(v) == versions[v] # NoVersion

\* require_controlled_version_integrity for a draft: the row and its single
\* creation event agree.
DraftIntegrity(v) ==
    /\ Exists(v)
    /\ versions[v].status = "DRAFT"
    /\ versions[v].approvedBy = NoVersion
    /\ versionEvents[v] = <<[type |-> "created", by |-> versions[v].createdBy]>>

\* ... and for an approved version: exactly one creation, then exactly one
\* approval by the recorded approver, who is not the creator.
ApprovedIntegrity(v) ==
    /\ Exists(v)
    /\ versions[v].status = "APPROVED"
    /\ versions[v].approvedBy \notin {NoVersion, versions[v].createdBy}
    /\ versionEvents[v] = <<[type |-> "created", by |-> versions[v].createdBy],
                            [type |-> "approved", by |-> versions[v].approvedBy]>>

\* require_bound_controlled_version: the newest binding event of the purpose
\* names the row that is bound, and the version still verifies.
NewestBinding(i, purpose) ==
    /\ i \in 1 .. Len(bindingEvents) /\ bindingEvents[i].purpose = purpose
    /\ \A j \in i + 1 .. Len(bindingEvents) : bindingEvents[j].purpose # purpose

BindingVerifies(purpose) ==
    /\ bindings[purpose] # NoVersion
    /\ ApprovedIntegrity(bindings[purpose].version)
    /\ \E i \in 1 .. Len(bindingEvents) :
          /\ NewestBinding(i, purpose)
          /\ bindingEvents[i].version = bindings[purpose].version
          /\ bindingEvents[i].by = bindings[purpose].by

\* The update trigger of controlled_versions: one approval, nothing else.
VersionChangeAllowed(old, new) ==
    /\ new = [old EXCEPT !.status = new.status, !.approvedBy = new.approvedBy]
    /\ old.status = "DRAFT" /\ new.status = "APPROVED"
    /\ old.approvedBy = NoVersion /\ new.approvedBy # NoVersion

-----------------------------------------------------------------------------
\* create_version.
CreateVersion(a, v, kind, validUntil) ==
    /\ ~ Exists(v)
    /\ versions' = [versions EXCEPT ![v] =
            [kind |-> kind, createdBy |-> a, status |-> "DRAFT",
             approvedBy |-> NoVersion, validUntil |-> validUntil]]
    /\ versionEvents' = [versionEvents EXCEPT ![v] =
            <<[type |-> "created", by |-> a]>>]
    /\ UNCHANGED <<reviewing, bindings, bindingEvents, qualifications, day>>

\* The reviewer's page shows a draft; several reviewers may look at it.
OpenDraft(a, v) ==
    /\ reviewing[a] = NoVersion
    /\ DraftIntegrity(v)
    /\ reviewing' = [reviewing EXCEPT ![a] = v]
    /\ UNCHANGED <<versions, versionEvents, bindings, bindingEvents, qualifications, day>>
\* Mutant: the draft is not read again.
OnceOpened(a, v) == versions[v].createdBy # a

Approvable(a, v) == DraftIntegrity(v) /\ versions[v].createdBy # a

\* approve_version, with the row read FOR UPDATE: refused or applied.
ApproveVersion(a) ==
    LET v == reviewing[a] IN
    /\ v # NoVersion
    /\ reviewing' = [reviewing EXCEPT ![a] = NoVersion]
    /\ IF Approvable(a, v)
         THEN /\ versions' = [versions EXCEPT ![v].status = "APPROVED", ![v].approvedBy = a]
              /\ versionEvents' = [versionEvents EXCEPT ![v] =
                    Append(@, [type |-> "approved", by |-> a])]
         ELSE UNCHANGED <<versions, versionEvents>>
    /\ UNCHANGED <<bindings, bindingEvents, qualifications, day>>
\* Mutant: only the purpose's own binding is looked at.
KindBoundNowhere(kind, purpose) == FALSE

KindBoundElsewhere(kind, purpose) ==
    \E other \in Purpose \ {purpose} :
        bindings[other] # NoVersion /\ versions[bindings[other].version].kind = kind

\* bind_to_project, with the project row locked: replaces what the purpose had.
BindToProject(a, v, purpose) ==
    /\ Len(bindingEvents) < MaxBindings
    /\ ApprovedIntegrity(v)
    /\ ~ KindBoundElsewhere(versions[v].kind, purpose)
    /\ bindings' = [bindings EXCEPT ![purpose] = [version |-> v, by |-> a]]
    /\ bindingEvents' = Append(bindingEvents, [purpose |-> purpose, version |-> v, by |-> a])
    /\ UNCHANGED <<versions, versionEvents, reviewing, qualifications, day>>

\* activate_adapter_qualification: the row of the version is made once.
ActivateQualification(v) ==
    /\ ApprovedIntegrity(v)
    /\ versions[v].kind = AdapterKind
    /\ versions[v].validUntil >= day
    /\ qualifications' = qualifications \cup {v}
    /\ UNCHANGED <<versions, versionEvents, reviewing, bindings, bindingEvents, day>>

NextDay == /\ day < LastDay
           /\ day' = day + 1
           /\ UNCHANGED <<versions, versionEvents, reviewing, bindings, bindingEvents,
                          qualifications>>

GovNext ==
    \/ \E a \in Author, v \in Version, k \in Kind, d \in 0 .. LastDay : CreateVersion(a, v, k, d)
    \/ \E a \in Author, v \in Version : OpenDraft(a, v)
    \/ \E a \in Author : ApproveVersion(a)
    \/ \E a \in Author, v \in Version, p \in Purpose : BindToProject(a, v, p)
    \/ \E v \in Version : ActivateQualification(v)
    \/ NextDay

GovSpec == GovInit /\ [][GovNext]_governanceVars

-----------------------------------------------------------------------------
GovTypeOK ==
    /\ versions \in [Version -> VersionRow \cup {NoVersion}]
    /\ \A p \in Purpose : bindings[p] = NoVersion \/ bindings[p] \in BindingRow
    /\ qualifications \subseteq Version

\* What is bound to a purpose or activated as a qualification always verifies
\* against the audit chain, whoever approved and bound in whatever order, and
\* a kind is never bound to two purposes.
GovernedContentVerifies ==
    /\ \A p \in Purpose : bindings[p] # NoVersion => BindingVerifies(p)
    /\ \A p, q \in Purpose :
          p # q /\ bindings[p] # NoVersion /\ bindings[q] # NoVersion
            => versions[bindings[p].version].kind # versions[bindings[q].version].kind
    /\ \A v \in qualifications : ApprovedIntegrity(v)
=============================================================================
