------------------------------- MODULE Recovery -------------------------------
(***************************************************************************)
(* A recovery exercise: the database and the object store are backed up    *)
(* separately, both are restored after an incident, and the verifier       *)
(* replays everything that was fixed before it passes the restore.         *)
(*                                                                         *)
(* Objects are written before the rows that name them and never change.    *)
(* Snapshots are fixed too, but the rows they were calculated from are not: *)
(* an upload that captured the confirmed set of the project supersedes      *)
(* approvals and stales norm calculations.  When the incident was and what  *)
(* moment the database went back to is what the operator declares.          *)
(***************************************************************************)
EXTENDS Naturals, FiniteSets

CONSTANTS
    Snapshot,     \* identifiers of fixed calculations
    Basis,        \* what an amount rests on: kinds of AtomicCostInput
    Golden,       \* snapshots the approved profile requires
    Defect,       \* "binding", "schema", "runtime", "stores", "adapters",
                  \* "versions" or "audit", and "none"
    Evidence,     \* what overrides rest on: "policy", observations, decisions
    MaxRPO, MaxRTO, \* hours of the approved profile
    LastHour,     \* bound of the clock
    MaxSets,      \* bound: document sets of the project
    MaxDerived,   \* bound: scenario runs, packages and checkpoints
    NoExercise

VARIABLES
    live,          \* the database: in production, then as restored
    store,         \* the object store: in production, then as restored
    dbBackups,     \* the last backup of the database: a record [at, db]
    storeBackups,  \* the last backup of the object store: a set of objects
    fixedAt,       \* [Snapshot -> hour it was fixed in, or 0]
    hour,
    exercise       \* the restore under verification, or NoExercise

recoveryVars == <<live, store, dbBackups, storeBackups, fixedAt, hour, exercise>>

\* CalculationSnapshotRow, with the document set and the basis of its inputs.
SnapshotRow == [id : Snapshot, docset : 1 .. MaxSets, basis : Basis]

\* The status of a basis row as a snapshot finds it when it is fixed.
FreshStatus == [observation |-> "VERIFIED", assumption |-> "APPROVED",
                norm |-> "VALIDATED", risk |-> "VALIDATED", commercial |-> "VALIDATED"]

RecoveryInit ==
    /\ live = [docset |-> 1, snapshots |-> {}, status |-> [s \in Snapshot |-> "none"],
               evidence |-> {}, scenarios |-> {}, exports |-> {}, checkpoint |-> FALSE]
    /\ store = {<<"document", 1>>}
    /\ dbBackups = {} /\ storeBackups = {}
    /\ fixedAt = [s \in Snapshot |-> 0]
    /\ hour = 1
    /\ exercise = NoExercise

Running == exercise = NoExercise

-----------------------------------------------------------------------------
\* The status the basis row of a snapshot has once the set it was calculated
\* from is replaced (_invalidate_derived_records).
Invalidated(row, status) ==
    IF row.basis = "assumption" THEN "SUPERSEDED"
    ELSE IF row.basis = "norm" THEN "STALE"
    ELSE status

\* The next document set, of an upload that captured the current one or, if
\* there was none when it was received, invalidates nothing.
ReplaceDocument(captured) ==
    /\ Running /\ live.docset < MaxSets
    /\ store' = store \cup {<<"document", live.docset + 1>>}
    /\ live' = [live EXCEPT !.docset = @ + 1,
            !.status = [s \in Snapshot |->
                LET rows == {r \in live.snapshots : r.id = s} IN
                IF rows = {} \/ ~ captured THEN @[s] ELSE Invalidated(CHOOSE r \in rows : TRUE, @[s])]]
    /\ UNCHANGED <<dbBackups, storeBackups, fixedAt, hour, exercise>>

FixSnapshot(s, basis) ==
    /\ Running /\ fixedAt[s] = 0
    /\ store' = store \cup {<<"snapshot", s>>}
    /\ live' = [live EXCEPT !.snapshots = @ \cup
                                {[id |-> s, docset |-> live.docset, basis |-> basis]},
                            !.status[s] = FreshStatus[basis]]
    /\ fixedAt' = [fixedAt EXCEPT ![s] = hour]
    /\ UNCHANGED <<dbBackups, storeBackups, hour, exercise>>

Derived == Cardinality(live.scenarios) + Cardinality(live.exports)
           + IF live.checkpoint THEN 1 ELSE 0

\* An override of a scenario rests on the scenario policy itself, on a VERIFIED
\* observation or on an APPROVED decision, which was there before and is never
\* taken back.
RunScenario(s, basis) ==
    /\ Running /\ fixedAt[s] # 0 /\ Derived < MaxDerived
    /\ live' = [live EXCEPT !.evidence = @ \cup {basis},
                            !.scenarios = @ \cup {[of |-> s, basis |-> basis]}]
    /\ UNCHANGED <<store, dbBackups, storeBackups, fixedAt, hour, exercise>>

ExportPackage(s) ==
    /\ Running /\ fixedAt[s] # 0 /\ Derived < MaxDerived
    /\ store' = store \cup {<<"export", s>>}
    /\ live' = [live EXCEPT !.exports = @ \cup {s}]
    /\ UNCHANGED <<dbBackups, storeBackups, fixedAt, hour, exercise>>

CreateCheckpoint ==
    /\ Running /\ Derived < MaxDerived
    /\ store' = store \cup {<<"checkpoint", 0>>}
    /\ live' = [live EXCEPT !.checkpoint = TRUE]
    /\ UNCHANGED <<dbBackups, storeBackups, fixedAt, hour, exercise>>

BackUpDatabase ==
    /\ Running
    /\ dbBackups' = {[at |-> hour, db |-> live]}
    /\ UNCHANGED <<live, store, storeBackups, fixedAt, hour, exercise>>

BackUpStore ==
    /\ Running
    /\ storeBackups' = {store}
    /\ UNCHANGED <<live, store, dbBackups, fixedAt, hour, exercise>>

\* The incident and the restore that follows, which takes the place of what
\* was lost: the backups, and one thing that goes wrong: an object that is
\* missing among them, a defect of the new environment, or a false declaration.
\* The manifest declares the incident, the recovery point and the start; taken,
\* a history field, is the hour of the backup.
Restore(d, o, lost, defect, incident, point, started) ==
    /\ Running
    /\ point <= incident /\ incident <= started
    /\ exercise' = [incident |-> incident, point |-> point, started |-> started,
                    taken |-> d.at, defect |-> defect, verdict |-> "open"]
    /\ live' = d.db
    /\ store' = o \ lost
    /\ dbBackups' = {} /\ storeBackups' = {}
    /\ UNCHANGED <<fixedAt, hour>>

\* Time passes until the verdict.
Tick == /\ hour < LastHour
        /\ ~ Running => exercise.verdict = "open"
        /\ hour' = hour + 1
        /\ UNCHANGED <<live, store, dbBackups, storeBackups, fixedAt, exercise>>

-----------------------------------------------------------------------------
\* The checks of the verifier, over what was restored.
Restored(object) == object \in store

CheckExerciseBinding == exercise.defect # "binding"
CheckSchema == exercise.defect # "schema"
CheckRuntimeBindings == exercise.defect # "runtime"
CheckStores == exercise.defect # "stores"
CheckAdapters == exercise.defect # "adapters"
CheckControlledVersions == exercise.defect # "versions"

\* Mutant: the declared loss is measured, no limit is set to it.
CheckPointPrecedesIncident == exercise.incident - exercise.point >= 0

CheckRecoveryObjectives == exercise.incident - exercise.point \in 0 .. MaxRPO

\* The current set is there; earlier ones are confirmed or superseded.
CheckDocumentSets == \A r \in live.snapshots : r.docset <= live.docset

CheckObjectReferences == \A n \in 1 .. live.docset : Restored(<<"document", n>>)

\* _cost_basis_valid: the basis row must carry its final status now.
CostBasisValid(r) == live.status[r.id] = FreshStatus[r.basis]

VerifySnapshot(r) == /\ Restored(<<"snapshot", r.id>>)
                     /\ r.docset \in 1 .. live.docset
                     /\ CostBasisValid(r)

ValidSnapshots == {s \in Snapshot : \E r \in live.snapshots : r.id = s /\ VerifySnapshot(r)}

CheckSnapshots == \A r \in live.snapshots : VerifySnapshot(r)

CheckGoldenSet == Golden \subseteq ValidSnapshots

\* _scenario_evidence_valid: the decision of an approval is asked, the status of
\* its task is not.
ScenarioEvidenceValid(run) == run.basis = "policy" \/ run.basis \in live.evidence

\* A scenario is replayed over the stored inputs of its snapshot.
CheckScenarios == \A run \in live.scenarios :
                    /\ \E r \in live.snapshots : r.id = run.of
                    /\ Restored(<<"snapshot", run.of>>) /\ ScenarioEvidenceValid(run)

CheckExports == \A s \in live.exports :
                    Restored(<<"export", s>>) /\ Restored(<<"snapshot", s>>)

CheckAudit == /\ exercise.defect # "audit"
              /\ live.checkpoint => Restored(<<"checkpoint", 0>>)

\* verify: every check passes within the approved recovery time.
Passes ==
    /\ CheckExerciseBinding /\ CheckRecoveryObjectives /\ CheckSchema
    /\ CheckRuntimeBindings /\ CheckStores /\ CheckAdapters /\ CheckControlledVersions
    /\ CheckDocumentSets /\ CheckObjectReferences /\ CheckSnapshots /\ CheckGoldenSet
    /\ CheckScenarios /\ CheckExports /\ CheckAudit
    /\ hour - exercise.started <= MaxRTO

Verify ==
    /\ ~ Running /\ exercise.verdict = "open"
    /\ exercise' = [exercise EXCEPT !.verdict = IF Passes THEN "PASSED" ELSE "FAILED"]
    /\ UNCHANGED <<live, store, dbBackups, storeBackups, fixedAt, hour>>

RecoveryNext ==
    \/ CreateCheckpoint \/ BackUpDatabase \/ BackUpStore \/ Tick \/ Verify
    \/ \E captured \in BOOLEAN : ReplaceDocument(captured)
    \/ \E s \in Snapshot :
            \/ ExportPackage(s)
            \/ \E b \in Basis : FixSnapshot(s, b)
            \/ \E basis \in Evidence : RunScenario(s, basis)
    \/ \E d \in dbBackups, o \in storeBackups :
            \/ \E incident, point, started \in 1 .. hour :
                    Restore(d, o, {}, "none", incident, point, started)
            \/ \E defect \in Defect : Restore(d, o, {}, defect, hour, d.at, hour)
            \/ \E x \in o : Restore(d, o, {x}, "none", hour, d.at, hour)

RecoverySpec == RecoveryInit /\ [][RecoveryNext]_recoveryVars

-----------------------------------------------------------------------------
RecoveryTypeOK ==
    /\ live.snapshots \subseteq SnapshotRow
    /\ fixedAt \in [Snapshot -> 0 .. LastHour]
    /\ ~ Running => exercise.verdict \in {"open", "PASSED", "FAILED"}

\* Everything the restored rows refer to.
References == {<<"document", n>> : n \in 1 .. live.docset}
         \cup {<<"snapshot", r.id>> : r \in live.snapshots}
         \cup {<<"export", s>> : s \in live.exports}
         \cup IF live.checkpoint THEN {<<"checkpoint", 0>>} ELSE {}

Complete == References \subseteq store

\* The snapshot came back.
Recovered(s) == \E r \in live.snapshots : r.id = s

\* A restore that passed has every object its rows name and every golden
\* snapshot, and if its declared point is no later than its backup, it lost
\* nothing that was fixed longer than MaxRPO before the incident.  A point
\* declared too late hides the loss of anything but a golden snapshot.
PassedRestoreIsComplete ==
    ~ Running =>
        (exercise.verdict = "PASSED" =>
            /\ Complete
            /\ \A s \in Golden : Recovered(s)
            /\ exercise.point <= exercise.taken =>
                  \A s \in Snapshot :
                     fixedAt[s] # 0 /\ fixedAt[s] + MaxRPO < exercise.incident => Recovered(s))
=============================================================================
