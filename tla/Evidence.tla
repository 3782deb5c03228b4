------------------------------ MODULE Evidence ------------------------------
(***************************************************************************)
(* How an observed value becomes evidence: an expert's reading is approved *)
(* by somebody else, independent adapters agree, or their conflict is      *)
(* resolved.  One field of one document; replacing a document supersedes   *)
(* every review task, and a decision binds the time stamp its page showed. *)
(***************************************************************************)
EXTENDS Naturals, FiniteSets

CONSTANTS
    Person, Adapter,
    Domain,   \* [Adapter -> independence domain of its qualification]
    Value, Policy,
    MaxSets,      \* bound: document sets of the project
    MaxObserved,  \* bound: observations of the field
    NoRow

VARIABLES
    observed,    \* unverified observations, by their identity
    derived,     \* verified observations
    tasks,       \* [manual observation -> review task or NoRow]
    records,     \* approval_records
    conflicts,   \* [set of observations -> conflict, with its task, or NoRow]
    expired,     \* adapters whose qualification ran out
    policy, docset, revision, confirmed

evidenceVars == <<observed, derived, tasks, records, conflicts, expired,
                  policy, docset, revision, confirmed>>

Manual == [by : Person, value : Value, revision : 1 .. MaxSets, policy : Policy]
Automatic == [by : Adapter, value : Value, revision : 1 .. MaxSets]

\* Two observations that reconcile may find to disagree.
ConflictId == {s \in {{x, y} : x, y \in Automatic} :
                \E x, y \in s : x.value # y.value /\ x.revision = y.revision}

NewTask(by) == [status |-> "PENDING", by |-> by, docset |-> docset]

EvidenceInit ==
    /\ observed = {} /\ derived = {} /\ records = {} /\ expired = {}
    /\ tasks = [o \in Manual |-> NoRow]
    /\ conflicts = [c \in ConflictId |-> NoRow]
    /\ policy \in Policy /\ docset = 1 /\ revision = 1 /\ confirmed = TRUE

-----------------------------------------------------------------------------
\* record_observation by a SYSTEM actor whose qualification holds.
RecordAutomatic(a, v) ==
    LET o == [by |-> a, value |-> v, revision |-> revision] IN
    /\ a \notin expired
    /\ Cardinality(observed) < MaxObserved
    /\ observed' = observed \cup {o}
    /\ UNCHANGED <<derived, tasks, records, conflicts, expired, policy, docset, revision, confirmed>>

\* _ensure_manual_evidence_task: the task of an observation that was recorded
\* before must reproduce, with the document set it was created for.
TaskReproduces(o) == tasks[o] # NoRow => /\ tasks[o].by = o.by
                                         /\ tasks[o].docset = docset
                                         /\ tasks[o].status # "SUPERSEDED"

\* record_observation by an expert, with its review task.
RecordManual(p, v) ==
    LET o == [by |-> p, value |-> v, revision |-> revision, policy |-> policy] IN
    /\ confirmed /\ TaskReproduces(o)
    /\ Cardinality(observed) < MaxObserved
    /\ observed' = observed \cup {o}
    /\ tasks' = [tasks EXCEPT ![o] = IF @ = NoRow THEN NewTask(p) ELSE @]
    /\ UNCHANGED <<derived, records, conflicts, expired, policy, docset, revision, confirmed>>

\* manual_evidence_review without blockers.
Reviewable(p, o) ==
    /\ o \in observed /\ tasks[o] # NoRow
    /\ confirmed /\ o.revision = revision
    /\ o.policy = policy /\ tasks[o].docset = docset
    /\ tasks[o].status = "PENDING"
    /\ p # o.by /\ p # tasks[o].by

\* decide_manual_evidence: an approval derives the verified observation.
DecideManual(p, o, decision) ==
    /\ Reviewable(p, o)
    /\ tasks' = [tasks EXCEPT ![o].status = decision]
    /\ records' = records \cup {[of |-> {o}, decision |-> decision, by |-> p]}
    /\ derived' = IF decision = "REJECTED" THEN derived
                  ELSE derived \cup {[from |-> {o}, value |-> o.value, by |-> p,
                                      docset |-> docset, kind |-> "review"]}
    /\ UNCHANGED <<observed, conflicts, expired, policy, docset, revision, confirmed>>

-----------------------------------------------------------------------------
\* _validate_independence_domains, at the time the observations are used.
Independent(s) ==
    /\ \A o \in s : o.by \notin expired
    /\ \A x, y \in s : x # y => x.by # y.by /\ Domain[x.by] # Domain[y.by]

\* reconcile: the observations are of the confirmed current document set.
Reconcilable(s) == /\ s \subseteq observed /\ confirmed
                   /\ \A o \in s : o.revision = revision
                   /\ Independent(s)

Agree(p, s) ==
    /\ Cardinality(s) = 2 /\ Reconcilable(s)
    /\ \A x, y \in s : x.value = y.value
    /\ derived' = IF \E d \in derived : d.from = s THEN derived
                  ELSE derived \cup {[from |-> s, value |-> (CHOOSE x \in s : TRUE).value,
                                      by |-> p, docset |-> docset, kind |-> "agreement"]}
    /\ UNCHANGED <<observed, tasks, records, conflicts, expired, policy, docset, revision, confirmed>>

\* Mutant: a conflict that is there already is written once more.
AlwaysConflict(s) == TRUE

\* _require_existing_conflict_integrity refuses what is settled or superseded.
NewConflict(s) == conflicts[s] = NoRow

Disagree(p, s) ==
    /\ s \in ConflictId /\ Reconcilable(s)
    /\ NewConflict(s)
    /\ conflicts' = [conflicts EXCEPT ![s] = [status |-> "CONFLICT", by |-> p, task |-> "PENDING"]]
    /\ UNCHANGED <<observed, derived, tasks, records, expired, policy, docset, revision, confirmed>>

\* resolve_conflict: the resolver chooses one of the sources; whether they are
\* still of the current document set is not asked.
Resolvable(p, s) == /\ s \in ConflictId /\ conflicts[s] # NoRow
                    /\ conflicts[s].status = "CONFLICT" /\ conflicts[s].task = "PENDING"
                    /\ p # conflicts[s].by
                    /\ Independent(s)

Resolve(p, s, o) ==
    /\ Resolvable(p, s) /\ o \in s
    /\ conflicts' = [conflicts EXCEPT ![s].status = "VERIFIED", ![s].task = "APPROVED"]
    /\ records' = records \cup {[of |-> s, decision |-> "APPROVED", by |-> p]}
    /\ derived' = derived \cup {[from |-> s, value |-> o.value, by |-> p,
                                 docset |-> docset, kind |-> "resolution"]}
    /\ UNCHANGED <<observed, tasks, expired, policy, docset, revision, confirmed>>

-----------------------------------------------------------------------------
\* _invalidate_derived_records as far as evidence goes: every task is
\* superseded, and observations and conflicts stay as they are.
Superseded(task) == IF task = NoRow THEN NoRow ELSE [task EXCEPT !.status = "SUPERSEDED"]

Orphaned(conflict) == IF conflict = NoRow THEN NoRow ELSE [conflict EXCEPT !.task = "SUPERSEDED"]

\* This document is replaced, or another one of the set.
ReplaceDocument(own) ==
    /\ docset < MaxSets
    /\ docset' = docset + 1 /\ confirmed' = FALSE
    /\ revision' = IF own THEN docset + 1 ELSE revision
    /\ tasks' = [o \in Manual |-> Superseded(tasks[o])]
    /\ conflicts' = [s \in ConflictId |-> Orphaned(conflicts[s])]
    /\ UNCHANGED <<observed, derived, records, expired, policy>>

ConfirmSet == /\ ~ confirmed /\ confirmed' = TRUE
              /\ UNCHANGED <<observed, derived, tasks, records, conflicts, expired, policy, docset, revision>>

BindPolicy(v) == /\ v # policy /\ policy' = v
                 /\ UNCHANGED <<observed, derived, tasks, records, conflicts, expired, docset, revision, confirmed>>

Expire(a) == /\ expired' = expired \cup {a}
             /\ UNCHANGED <<observed, derived, tasks, records, conflicts, policy, docset, revision, confirmed>>

EvidenceNext ==
    \/ \E a \in Adapter : Expire(a) \/ \E v \in Value : RecordAutomatic(a, v)
    \/ \E p \in Person, v \in Value : RecordManual(p, v)
    \/ \E p \in Person, o \in observed \cap Manual, d \in {"APPROVED", "REJECTED"} : DecideManual(p, o, d)
    \/ \E p \in Person, s \in SUBSET (observed \cap Automatic) :
          Agree(p, s) \/ Disagree(p, s) \/ \E o \in s : Resolve(p, s, o)
    \/ \E own \in BOOLEAN : ReplaceDocument(own)
    \/ ConfirmSet
    \/ \E v \in Policy : BindPolicy(v)

EvidenceSpec == EvidenceInit /\ [][EvidenceNext]_evidenceVars

-----------------------------------------------------------------------------
\* require_verified_manual_derivation: what the other services accept.
Usable(d) ==
    /\ d \in derived /\ d.kind = "review" /\ confirmed
    /\ d.docset = docset
    /\ \E o \in d.from :
          /\ o.revision = revision /\ o.policy = policy
          /\ tasks[o] # NoRow /\ tasks[o].status = "APPROVED"
          /\ [of |-> {o}, decision |-> "APPROVED", by |-> d.by] \in records

\* Every verified value goes back to what was observed and to a decision of
\* somebody who neither observed it nor opened its review, and a conflict is
\* settled once: its rows, task and records tell the same story, whatever was
\* replaced, repeated or expired since.
DerivedIsJustified ==
    /\ \A d \in derived :
          /\ d.from \subseteq observed
          /\ \E o \in d.from : d.value = o.value
          /\ d.kind = "agreement" => Cardinality({Domain[o.by] : o \in d.from}) = 2
          /\ d.kind # "agreement" => \A o \in d.from : o.by # d.by
    /\ \A s \in ConflictId :
          LET settled == {d \in derived : d.from = s} IN
          /\ Cardinality(settled) =
                (IF conflicts[s] # NoRow /\ conflicts[s].status = "VERIFIED" THEN 1 ELSE 0)
          /\ \A d \in settled : /\ [of |-> s, decision |-> "APPROVED", by |-> d.by] \in records
                                /\ d.by # conflicts[s].by
    /\ \A d \in derived : Usable(d) => \A r \in records : r.of = d.from => r.by = d.by
=============================================================================
