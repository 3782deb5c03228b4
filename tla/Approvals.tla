------------------------------ MODULE Approvals ------------------------------
(***************************************************************************)
(* Expert approvals of one project: tasks that a policy demands for        *)
(* subjects, tasks of critical manual changes, the decisions of experts    *)
(* and the supersession of all of them by a new document revision, which   *)
(* happens only if the project had a confirmed document set when the       *)
(* upload was received.                                                    *)
(*                                                                         *)
(* The identifier of a task is a hash of policy version, subject and       *)
(* reason, so planning the same subject twice finds the same row.  Experts *)
(* load a task and decide later: the page carries the updated_at it saw.   *)
(***************************************************************************)
EXTENDS Naturals, FiniteSets

CONSTANTS
    Expert,     \* principals with the assigned role
    Subject,    \* subjects of the policy, with their reason
    Change,     \* critical manual changes
    Policy,     \* approval_policy versions that may be bound
    Upload,     \* uploads of the project after its first documents
    MaxStamps,  \* bound on the clock of updated_at
    NoTask, NoPage

VARIABLES
    tasks,     \* [TaskId -> row or NoTask]: approval_tasks
    records,   \* approval_records: append-only
    pages,     \* [Expert -> the task and updated_at on an expert's screen]
    policy,    \* the bound approval_policy
    confirmed, \* the project has a current document set
    candidate, \* a DRAFT candidate waits for its confirmation
    uploads,   \* [Upload -> what became of it]
    stamp      \* the clock that writes updated_at

setVars == <<confirmed, candidate, uploads>>
approvalVars == <<tasks, records, pages, policy, setVars, stamp>>

\* A planned task is identified by policy and subject, a manual change by itself.
TaskId == (Policy \X Subject) \cup Change

Decision == {"APPROVED", "REJECTED", "CHANGES_REQUESTED"}

\* ApprovalTaskRow.
TaskRow == [status : {"PENDING", "SUPERSEDED"} \cup Decision,
            required : BOOLEAN, createdBy : Expert, updated : 0 .. MaxStamps]

\* QuarantinedUploadRow: received while a set was current or not, then
\* processed, which replaced the documents of that set or captured nothing.
UploadState == {"none", "captured", "uncaptured", "replaced", "added"}

\* The replacements that invalidated what was derived from a document set.
Replacements == {u \in Upload : uploads[u] = "replaced"}

\* ApprovalRecordRow; seen is a history variable: the replacements before it.
RecordRow == [task : TaskId, decision : Decision, by : Expert, seen : SUBSET Upload]

AppInit == /\ tasks = [t \in TaskId |-> NoTask]
           /\ records = {}
           /\ pages = [e \in Expert |-> NoPage]
           /\ policy \in Policy
           /\ confirmed = FALSE /\ candidate = TRUE
           /\ uploads = [u \in Upload |-> "none"]
           /\ stamp = 0

-----------------------------------------------------------------------------
NewTask(e, required) ==
    [status |-> "PENDING", required |-> required, createdBy |-> e, updated |-> stamp + 1]

\* plan: for each subject the task of the bound policy, unless it exists; the
\* rule says whether it is required.
Plan(e, s, required) ==
    LET t == <<policy, s>> IN
    /\ stamp < MaxStamps
    /\ tasks[t] = NoTask
    /\ tasks' = [tasks EXCEPT ![t] = NewTask(e, required)]
    /\ stamp' = stamp + 1
    /\ UNCHANGED <<records, pages, policy, setVars>>

\* propose_quantity_manual_change: the critical change and its task.
ProposeChange(e, c) ==
    /\ stamp < MaxStamps
    /\ confirmed /\ tasks[c] = NoTask
    /\ tasks' = [tasks EXCEPT ![c] = NewTask(e, TRUE)]
    /\ stamp' = stamp + 1
    /\ UNCHANGED <<records, pages, policy, setVars>>

OpenTask(e, t) ==
    /\ tasks[t] # NoTask
    /\ pages[e] = NoPage
    /\ pages' = [pages EXCEPT ![e] = [task |-> t, updated |-> tasks[t].updated]]
    /\ UNCHANGED <<tasks, records, policy, setVars, stamp>>

\* The conditions of decide; the task of a change is required and its creator
\* the author of the change.
Decidable(e, t, decision, hasEvidence) ==
    /\ tasks[t].updated = pages[e].updated
    /\ tasks[t].status = "PENDING"
    /\ tasks[t].required => /\ tasks[t].createdBy # e
                            /\ decision = "APPROVED" => hasEvidence

\* decide: one record and the status, or an error.
Decide(e, decision, hasEvidence) ==
    LET t == pages[e].task IN
    /\ pages[e] # NoPage
    /\ stamp < MaxStamps
    /\ pages' = [pages EXCEPT ![e] = NoPage]
    /\ IF Decidable(e, t, decision, hasEvidence)
         THEN /\ tasks' = [tasks EXCEPT ![t].status = decision, ![t].updated = stamp + 1]
              /\ records' = records \cup
                    {[task |-> t, decision |-> decision, by |-> e, seen |-> Replacements]}
              /\ stamp' = stamp + 1
         ELSE UNCHANGED <<tasks, records, stamp>>
    /\ UNCHANGED <<policy, setVars>>

-----------------------------------------------------------------------------
\* Mutant: only pending tasks are superseded.
SupersededPending(t) ==
    IF tasks[t] # NoTask /\ tasks[t].status = "PENDING"
        THEN [tasks[t] EXCEPT !.status = "SUPERSEDED", !.updated = stamp + 1]
        ELSE tasks[t]

\* _invalidate_derived_records: every task that is not superseded becomes so.
SupersededTask(t) ==
    IF tasks[t] # NoTask /\ tasks[t].status # "SUPERSEDED"
        THEN [tasks[t] EXCEPT !.status = "SUPERSEDED", !.updated = stamp + 1]
        ELSE tasks[t]

\* register_quarantined_upload: the upload captures the set it will invalidate,
\* if there is one, and the project has none any more.
ReceiveUpload(u) ==
    /\ uploads[u] = "none"
    /\ uploads' = [uploads EXCEPT ![u] = IF confirmed THEN "captured" ELSE "uncaptured"]
    /\ confirmed' = FALSE
    /\ UNCHANGED <<tasks, records, pages, policy, candidate, stamp>>

\* The revision is registered, and what rests on the captured set invalidated ...
ReplaceDocuments(u) ==
    /\ uploads[u] = "captured" /\ stamp < MaxStamps
    /\ uploads' = [uploads EXCEPT ![u] = "replaced"]
    /\ tasks' = [t \in TaskId |-> SupersededTask(t)]
    /\ stamp' = stamp + 1
    /\ confirmed' = FALSE /\ candidate' = TRUE
    /\ UNCHANGED <<records, pages, policy>>

\* ... or nothing is, since nothing was captured.
AddDocuments(u) ==
    /\ uploads[u] = "uncaptured"
    /\ uploads' = [uploads EXCEPT ![u] = "added"]
    /\ confirmed' = FALSE /\ candidate' = TRUE
    /\ UNCHANGED <<tasks, records, pages, policy, stamp>>

ConfirmSet ==
    /\ candidate /\ candidate' = FALSE /\ confirmed' = TRUE
    /\ UNCHANGED <<tasks, records, pages, policy, uploads, stamp>>

BindPolicy(p) == /\ p # policy
                 /\ policy' = p
                 /\ UNCHANGED <<tasks, records, pages, setVars, stamp>>

AppNext ==
    \/ \E e \in Expert, s \in Subject, required \in BOOLEAN : Plan(e, s, required)
    \/ \E e \in Expert, c \in Change : ProposeChange(e, c)
    \/ \E e \in Expert, t \in TaskId : OpenTask(e, t)
    \/ \E e \in Expert, d \in Decision, evidence \in BOOLEAN : Decide(e, d, evidence)
    \/ \E u \in Upload : ReceiveUpload(u) \/ ReplaceDocuments(u) \/ AddDocuments(u)
    \/ ConfirmSet
    \/ \E p \in Policy : BindPolicy(p)

AppSpec == AppInit /\ [][AppNext]_approvalVars

-----------------------------------------------------------------------------
\* The update trigger of approval_tasks: a decision of a pending task, or a
\* supersession, never back, and with a later updated_at.
TaskChangeAllowed(old, new) ==
    /\ new.createdBy = old.createdBy /\ new.required = old.required
    /\ new.updated > old.updated
    /\ \/ old.status = "PENDING" /\ new.status \in Decision
       \/ old.status # "SUPERSEDED" /\ new.status = "SUPERSEDED"

AppTypeOK == /\ tasks \in [TaskId -> TaskRow \cup {NoTask}]
             /\ records \subseteq RecordRow
             /\ policy \in Policy /\ stamp \in 0 .. MaxStamps
             /\ confirmed \in BOOLEAN /\ candidate \in BOOLEAN
             /\ uploads \in [Upload -> UploadState]

RecordsOf(t) == {r \in records : r.task = t}

\* A decided task has exactly one record, with its decision, by somebody other
\* than the creator if it is required; one that was superseded keeps at most one.
DecisionsAgree ==
    \A t \in TaskId : tasks[t] # NoTask =>
        /\ tasks[t].status = "PENDING" => RecordsOf(t) = {}
        /\ tasks[t].status \in Decision =>
              \E r \in records :
                 /\ RecordsOf(t) = {r} /\ r.decision = tasks[t].status
                 /\ tasks[t].required => r.by # tasks[t].createdBy
        /\ tasks[t].status = "SUPERSEDED" => Cardinality(RecordsOf(t)) <= 1

\* An approval that a release counts was given after the last replacement of a
\* confirmed set: no page opened before it approves after it, and no approval
\* survives it.  An upload that captured no set leaves approvals as they were,
\* those over the documents it replaces included.
ApprovalsAreCurrent ==
    \A t \in TaskId : tasks[t] # NoTask =>
        (tasks[t].status = "APPROVED" => \A r \in RecordsOf(t) : r.seen = Replacements)
=============================================================================
