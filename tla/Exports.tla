------------------------------- MODULE Exports -------------------------------
(***************************************************************************)
(* The signed package of a released calculation (ExportService).  A        *)
(* package states what the release decision saw: approvals, workflow and   *)
(* audit chain are cut at the event of the decision, and a task that moved *)
(* since then refuses the package.  The lineage goes from every cost input *)
(* to all the observations below it.                                       *)
(*                                                                         *)
(* Commands of a project hold its row lock and are stamped in the order of *)
(* its audit chain: an instant is a position of that chain.                *)
(***************************************************************************)
EXTENDS Naturals, FiniteSets, Sequences, Workflow

CONSTANTS
    Task,         \* approval tasks of the project
    Version,      \* sets of controlled versions, the export template among them
    Key,          \* Ed25519 signing keys
    Observation,  \* observations below the cost inputs
    Sources,      \* source_observation_ids: [Observation -> SUBSET Observation]
    CostInput,    \* cost inputs of a calculation
    Basis,        \* [CostInput -> observations its basis names]; none for a norm,
                  \* a risk reserve or an approved assumption
    MaxEvents,    \* bound: length of the audit chain, exports aside
    MaxSnapshots, \* bound: calculations
    MaxSets,      \* bound: document sets
    NoRow

VARIABLES
    stage,        \* state of the project
    tasks,        \* [Task -> row or NoRow]
    records,      \* approval_records
    transitions,  \* workflow_transitions
    events,       \* audit_events of the project
    snapshots,    \* fixed calculation snapshots, in order
    releases,     \* release_decisions, in order
    bound,        \* the controlled versions bound to the project
    objects,      \* packages in the object store
    artifacts,    \* export_artifacts
    signing,      \* the configured signing key
    docset, confirmed

exportVars == <<stage, tasks, records, transitions, events, snapshots, releases, bound,
                objects, artifacts, signing, docset, confirmed>>

decided == <<tasks, records>>
calculated == <<snapshots, releases, bound>>
packed == <<objects, artifacts, signing>>
setOfDocuments == <<docset, confirmed>>

\* ApprovalTaskRow, ApprovalRecordRow, WorkflowTransitionRow and AuditEventRow;
\* which way a task was decided is all one here.
TaskRow == [status : {"PENDING", "DECIDED", "SUPERSEDED"},
            created : 1 .. MaxEvents, updated : 1 .. MaxEvents]
RecordRow == [task : Task, at : 1 .. MaxEvents]
TransitionRow == [to : ApprovalState, at : 1 .. MaxEvents]
Event == [type : {"decided", "planned", "moved", "calculated", "bound", "uploaded",
                  "released", "exported"}, decision : Nat]

ExportInit ==
    /\ stage = "EXPERT_REVIEW"
    /\ tasks = [t \in Task |-> NoRow] /\ records = {}
    /\ transitions = {} /\ events = <<>>
    /\ bound \in Version
    /\ snapshots = <<[docset |-> 1, versions |-> bound]>> /\ releases = <<>>
    /\ objects = {} /\ artifacts = {} /\ signing \in Key
    /\ docset = 1 /\ confirmed = TRUE

-----------------------------------------------------------------------------
Now == Len(events) + 1

\* record_event appends to the chain of the project.
Record(type) == /\ Now <= MaxEvents
                /\ events' = Append(events, [type |-> type, decision |-> 0])

\* build_plan makes a task once.
PlanTask(t) ==
    /\ tasks[t] = NoRow
    /\ tasks' = [tasks EXCEPT ![t] = [status |-> "PENDING", created |-> Now, updated |-> Now]]
    /\ Record("planned")
    /\ UNCHANGED <<stage, records, transitions, calculated, packed, setOfDocuments>>

\* ApprovalService.decide, in whatever state the project is.
DecideTask(t) ==
    /\ tasks[t] # NoRow /\ tasks[t].status = "PENDING"
    /\ tasks' = [tasks EXCEPT ![t].status = "DECIDED", ![t].updated = Now]
    /\ records' = records \cup {[task |-> t, at |-> Now]}
    /\ Record("decided")
    /\ UNCHANGED <<stage, transitions, calculated, packed, setOfDocuments>>

\* _change_state.
Move(to) ==
    /\ to \notin Released /\ CanTransition(stage, to)
    /\ stage' = to /\ transitions' = transitions \cup {[to |-> to, at |-> Now]}
    /\ Record("moved")
    /\ UNCHANGED <<decided, calculated, packed, setOfDocuments>>

\* A calculation over the current set and the bound versions (execute).
Calculate ==
    /\ stage = "CALCULATION_IN_PROGRESS" /\ confirmed /\ Len(snapshots) < MaxSnapshots
    /\ snapshots' = Append(snapshots, [docset |-> docset, versions |-> bound])
    /\ Record("calculated")
    /\ UNCHANGED <<stage, decided, transitions, releases, bound, packed, setOfDocuments>>

\* bind_to_project asks for no state: a released project may be bound anew.
Bind(v) ==
    /\ bound' = v /\ Record("bound")
    /\ UNCHANGED <<stage, decided, transitions, snapshots, releases, packed, setOfDocuments>>

\* A replaced document supersedes every task (_invalidate_derived_records).
ReplaceDocument ==
    /\ stage \notin Immutable /\ confirmed /\ docset < MaxSets
    /\ confirmed' = FALSE
    /\ tasks' = [t \in Task |->
            IF tasks[t] = NoRow THEN NoRow
            ELSE [tasks[t] EXCEPT !.status = "SUPERSEDED", !.updated = Now]]
    /\ stage' = "BLOCKED"
    /\ transitions' = IF stage = "BLOCKED" THEN transitions
                      ELSE transitions \cup {[to |-> "BLOCKED", at |-> Now]}
    /\ Record("uploaded")
    /\ UNCHANGED <<records, calculated, packed, docset>>

ConfirmSet ==
    /\ stage \notin Immutable /\ ~ confirmed
    /\ confirmed' = TRUE /\ docset' = docset + 1
    /\ UNCHANGED <<stage, decided, transitions, events, calculated, packed>>

-----------------------------------------------------------------------------
TaskView(upTo) == {<<t, tasks[t].status>> : t \in {u \in Task :
                        tasks[u] # NoRow /\ tasks[u].created <= upTo}}

\* _attempt_release of the newest snapshot: the move, the event and the row,
\* whose context hash fixes the approvals and the workflow that were seen.
AttemptRelease(requested, allowed) ==
    LET target == IF allowed THEN requested ELSE "BLOCKED"
        moved == transitions \cup {[to |-> target, at |-> Now]} IN
    /\ requested \in Released /\ CanTransition(stage, requested)
    /\ Now + 1 <= MaxEvents
    /\ snapshots[Len(snapshots)].docset = docset /\ confirmed
    /\ stage' = target /\ transitions' = moved
    /\ events' = events \o <<[type |-> "moved", decision |-> 0],
                             [type |-> "released", decision |-> Len(releases) + 1]>>
    /\ releases' = Append(releases,
            [snapshot |-> Len(snapshots), allowed |-> allowed, state |-> target,
             seen |-> [tasks |-> TaskView(Now), records |-> records, workflow |-> moved]])
    /\ UNCHANGED <<decided, snapshots, bound, packed, setOfDocuments>>

\* The latest allowed decision of this snapshot that led to the present state.
ReleaseOf(s) ==
    {r \in DOMAIN releases :
        /\ releases[r].snapshot = s /\ releases[r].allowed /\ releases[r].state = stage
        /\ \A later \in r + 1 .. Len(releases) :
                releases[later].snapshot = s /\ releases[later].allowed
                    => releases[later].state # stage}

\* _audit_chain: the position of the decision's own event.
Cutoff(r) == CHOOSE i \in DOMAIN events :
                events[i].type = "released" /\ events[i].decision = r

\* _approval_contents: the tasks there were at the decision ...
TasksBefore(i) == {t \in Task : tasks[t] # NoRow /\ tasks[t].created <= i}

\* Mutant: tasks that moved are packed as they are now.
MovedOrNot(i) == TasksBefore(i) \subseteq Task

\* ... refused when one moved since.
NoneMoved(i) == \A t \in TasksBefore(i) : tasks[t].updated <= i

Approvals(i) == [tasks |-> TaskView(i),
                 records |-> {r \in records : r.task \in TasksBefore(i) /\ r.at <= i}]

\* _workflow_contents.
WorkflowUpTo(i) == {w \in transitions : w.at <= i}

\* _source_observation_lineage: down from an observation, along one path of
\* nodes visited; a node that was visited on the path is a cycle.
Visit == (SUBSET Observation) \X Observation

Resolves[v \in Visit] ==
    /\ Sources[v[2]] \cap v[1] = {}
    /\ \A s \in Sources[v[2]] : Resolves[<<v[1] \cup {s}, s>>]

Nodes[v \in Visit] == {v[2]} \cup UNION {Nodes[<<v[1] \cup {s}, s>>] : s \in Sources[v[2]]}

\* _resolve_evidence and _cost_input_lineage of one cost input, and
\* snapshot_lineage of all.
LineageResolves == \A c \in CostInput : \A o \in Basis[c] : Resolves[<<{o}, o>>]
InputLineage(c) == UNION {Nodes[<<{o}, o>>] : o \in Basis[c]}
Lineage == [c \in CostInput |-> InputLineage(c)]

\* The contents of the package and the key that signs it.
Package(s, r) ==
    [snapshot |-> s, versions |-> bound, release |-> r, key |-> signing,
     approvals |-> Approvals(Cutoff(r)), workflow |-> WorkflowUpTo(Cutoff(r)),
     chain |-> SubSeq(events, 1, Cutoff(r)), lineage |-> Lineage]

\* generate, up to the point where the package is made.
Exportable(s, r) ==
    /\ stage \in Released
    /\ confirmed /\ snapshots[s].docset = docset
    /\ snapshots[s].versions = bound
    /\ r \in ReleaseOf(s)
    /\ LineageResolves
    /\ NoneMoved(Cutoff(r))

\* The artifact of this snapshot, release and template is returned again.
Existing(s, r) ==
    {a \in artifacts : a.snapshot = s /\ a.release = r /\ a.template = bound}

\* generate puts the package before the transaction commits; a rollback leaves
\* an object that no row names.
Generate(s, r, committed) ==
    /\ Exportable(s, r) /\ Existing(s, r) = {}
    /\ objects' = objects \cup {Package(s, r)}
    /\ IF committed
       THEN /\ artifacts' = artifacts \cup {[snapshot |-> s, release |-> r, template |-> bound,
                                             object |-> Package(s, r), key |-> signing]}
            /\ events' = Append(events, [type |-> "exported", decision |-> 0])
       ELSE UNCHANGED <<artifacts, events>>
    /\ UNCHANGED <<stage, decided, transitions, calculated, signing, setOfDocuments>>

RotateKey(k) ==
    /\ k # signing /\ signing' = k
    /\ UNCHANGED <<stage, decided, transitions, events, calculated, objects, artifacts,
                   setOfDocuments>>

\* The key a package is verified with is the one its row names.
TrustedKey(a) == a.key

\* _verify_packaged_controlled_versions: each packaged version is an approved
\* row, which never changes.
VersionsVerify(a) == a.object.versions \in Version /\ a.object.versions = a.template

\* verify, in the order of its checks.
Verifies(a) ==
    /\ a.object \in objects
    /\ a.object.key = TrustedKey(a)
    /\ a.object.snapshot = a.snapshot /\ a.object.release = a.release
    /\ a.snapshot \in DOMAIN snapshots
    /\ a.object.versions = snapshots[a.snapshot].versions
    /\ a.release \in DOMAIN releases
    /\ releases[a.release].allowed /\ releases[a.release].snapshot = a.snapshot
    /\ VersionsVerify(a)
    /\ a.object.chain # <<>> /\ a.object.chain = SubSeq(events, 1, Len(a.object.chain))
    /\ a.object.chain[Len(a.object.chain)].decision = a.release

Stages == {"CALCULATION_IN_PROGRESS", "EXPERT_REVIEW", "BLOCKED"}

ExportNext ==
    \/ \E t \in Task : PlanTask(t) \/ DecideTask(t)
    \/ \E to \in Stages : Move(to)
    \/ Calculate
    \/ \E v \in Version \ {bound} : Bind(v)
    \/ ReplaceDocument \/ ConfirmSet
    \/ \E q \in Released, allowed \in BOOLEAN : AttemptRelease(q, allowed)
    \/ \E s \in DOMAIN snapshots, r \in DOMAIN releases, c \in BOOLEAN : Generate(s, r, c)
    \/ \E k \in Key : RotateKey(k)

ExportSpec == ExportInit /\ [][ExportNext]_exportVars

-----------------------------------------------------------------------------
ExportTypeOK ==
    /\ stage \in ApprovalState /\ bound \in Version /\ signing \in Key
    /\ tasks \in [Task -> TaskRow \cup {NoRow}] /\ records \subseteq RecordRow
    /\ transitions \subseteq TransitionRow /\ events \in Seq(Event)

\* A package says of approvals and workflow what its release decision saw, and
\* its chain ends with that decision.
SaysWhatWasReleased(a) ==
    LET seen == releases[a.release].seen IN
    /\ a.object.approvals = [tasks |-> seen.tasks, records |-> seen.records]
    /\ a.object.workflow = seen.workflow

\* The lineage is the least set below the basis that is closed under sources.
LineageComplete(a) ==
    \A c \in CostInput : LET ids == a.object.lineage[c] IN
        /\ Basis[c] \subseteq ids /\ \A o \in ids : Sources[o] \subseteq ids
        /\ \A o \in ids : o \in Basis[c] \/ \E above \in ids : o \in Sources[above]

\* What was handed out stays what was released and stays verifiable, whatever
\* happens to the project, its bindings and the signing key afterwards, and a
\* release is packed once (generate, verify).
ExportStands ==
    /\ \A a \in artifacts : Verifies(a) /\ SaysWhatWasReleased(a) /\ LineageComplete(a)
    /\ \A a, b \in artifacts : a.snapshot = b.snapshot /\ a.release = b.release => a = b
=============================================================================
