----------------------------- MODULE CostModels -----------------------------
(***************************************************************************)
(* The commercial cost model of one BoQ component, from its proposal over  *)
(* its approval to the calculation that freezes its total in a snapshot,   *)
(* and the scenarios that vary the snapshot.                               *)
(***************************************************************************)
EXTENDS Naturals, Sequences, FiniteSets

CONSTANTS
    Person,
    Policy,   \* versions of the commercial cost policy
    MaxModels, MaxTerms, MaxSnapshots, MaxSets  \* bounds

VARIABLES
    state,     \* where the project stands
    models,    \* proposals for the component, oldest first
    findings,  \* models with unresolved findings
    policy,    \* the bound version
    term,      \* the current version of the contract term that models cite
    snapshots, \* fixed calculations, the last one newest
    scenarios, \* scenario runs
    docset, confirmed

costVars ==
    <<state, models, findings, policy, term, snapshots, scenarios, docset, confirmed>>

CostState == {"PRICING_IN_PROGRESS", "CALCULATION_IN_PROGRESS", "INDEPENDENT_VALIDATION",
              "EXPERT_REVIEW", "BLOCKED"}

\* CommercialCostModelRow and its task; supersedes 0 is NULL.
ModelRow == [by : Person, policy : Policy, term : 1 .. MaxTerms, docset : 1 .. MaxSets,
             status : {"REVIEW_REQUIRED", "BLOCKED", "VALIDATED"}, current : BOOLEAN,
             supersedes : 0 .. MaxModels,
             task : {"none", "PENDING", "APPROVED", "REJECTED", "SUPERSEDED"}]

\* CalculationSnapshotRow, with the versions that it fixes; ScenarioRunRow.
SnapshotRow == [model : 1 .. MaxModels, policy : Policy, docset : 1 .. MaxSets]
ScenarioRow == [snapshot : 1 .. MaxSnapshots, docset : 1 .. MaxSets]

CostInit ==
    /\ state = "PRICING_IN_PROGRESS" /\ models = <<>> /\ findings = {}
    /\ policy \in Policy /\ term = 1 /\ snapshots = <<>> /\ scenarios = {}
    /\ docset = 1 /\ confirmed = TRUE

-----------------------------------------------------------------------------
\* A line belongs to one document set: a new set has another target.
OfTarget == {m \in DOMAIN models : models[m].docset = docset}
Current == {m \in OfTarget : models[m].current}
Pending == {m \in OfTarget : models[m].status = "REVIEW_REQUIRED"}

\* A proposal whose review ended without an approval gives way.
GivesWay(m) == models[m].task = "REJECTED"

IdOf(S) == IF S = {} THEN 0 ELSE CHOOSE m \in S : TRUE

Settled == [m \in DOMAIN models |->
    IF m \in Pending THEN [models[m] EXCEPT !.status = "BLOCKED"] ELSE models[m]]

\* propose; the evaluation passes and plans a task, or leaves a finding.
Propose(p, passed) ==
    /\ state = "PRICING_IN_PROGRESS" /\ confirmed /\ Len(models) < MaxModels
    /\ \A m \in Pending : GivesWay(m)
    /\ models' = Append(Settled,
            [by |-> p, policy |-> policy, term |-> term, docset |-> docset,
             status |-> IF passed THEN "REVIEW_REQUIRED" ELSE "BLOCKED", current |-> FALSE,
             supersedes |-> IdOf(Current), task |-> IF passed THEN "PENDING" ELSE "none"])
    /\ findings' = (findings \ OfTarget) \cup (IF passed THEN {} ELSE {Len(models) + 1})
    /\ UNCHANGED <<state, policy, term, snapshots, scenarios, docset, confirmed>>

\* ApprovalService.decide of the task.
DecideModel(m, p, d) ==
    /\ models[m].task = "PENDING" /\ models[m].by # p
    /\ models' = [models EXCEPT ![m].task = d]
    /\ UNCHANGED <<state, findings, policy, term, snapshots, scenarios, docset, confirmed>>

Finalizable(m) ==
    /\ confirmed /\ models[m].status = "REVIEW_REQUIRED" /\ models[m].docset = docset
    /\ models[m].policy = policy /\ models[m].term = term
    /\ models[m].task = "APPROVED"
    /\ models[m].supersedes = IdOf(Current)

Finalize(m) ==
    /\ state = "PRICING_IN_PROGRESS" /\ Finalizable(m)
    /\ models' = [n \in DOMAIN models |->
            IF n = m THEN [models[n] EXCEPT !.status = "VALIDATED", !.current = TRUE]
            ELSE IF n \in Current THEN [models[n] EXCEPT !.current = FALSE]
            ELSE models[n]]
    /\ findings' = findings \ OfTarget
    /\ UNCHANGED <<state, policy, term, snapshots, scenarios, docset, confirmed>>

-----------------------------------------------------------------------------
Newest == CHOOSE m \in OfTarget : \A n \in OfTarget : n <= m

\* The commercial part of pricing_stage_blockers.
PricingGate ==
    /\ Current # {} /\ Newest \in Current
    /\ models[Newest].policy = policy

\* transition.
Move(s) ==
    /\ \/ state = "PRICING_IN_PROGRESS" /\ s = "CALCULATION_IN_PROGRESS" /\ PricingGate
       \/ state = "PRICING_IN_PROGRESS" /\ s = "EXPERT_REVIEW"
       \/ state = "INDEPENDENT_VALIDATION" /\ s \in {"CALCULATION_IN_PROGRESS", "EXPERT_REVIEW"}
       \/ state = "EXPERT_REVIEW" /\ s \in {"PRICING_IN_PROGRESS", "CALCULATION_IN_PROGRESS"}
       \/ state # "BLOCKED" /\ s = "BLOCKED"
       \/ state = "BLOCKED" /\ s # "BLOCKED"
    /\ state' = s
    /\ UNCHANGED <<models, findings, policy, term, snapshots, scenarios, docset, confirmed>>

\* _resolve_component_basis: the one model of the component that counts.
Resolved(m) == /\ Current = {m} /\ models[m].status = "VALIDATED"

\* Mutant: the lineage check forgets the version that the model rests on.
CalculableUnbound(m) == Resolved(m)

\* _validate_input_lineage of the derived cost model.
Calculable(m) == Resolved(m) /\ models[m].policy = policy

\* execute: the calculation is fixed and the project moves on.
Calculate(m) ==
    /\ state = "CALCULATION_IN_PROGRESS" /\ confirmed /\ Len(snapshots) < MaxSnapshots
    /\ Calculable(m)
    /\ snapshots' = Append(snapshots, [model |-> m, policy |-> policy, docset |-> docset])
    /\ state' = "INDEPENDENT_VALIDATION"
    /\ UNCHANGED <<models, findings, policy, term, scenarios, docset, confirmed>>

\* ScenarioService.execute; any fixed snapshot of the current set may be the base.
RunScenario(s) ==
    /\ state \in {"INDEPENDENT_VALIDATION", "EXPERT_REVIEW"} /\ confirmed
    /\ snapshots[s].docset = docset
    /\ scenarios' = scenarios \cup {[snapshot |-> s, docset |-> docset]}
    /\ UNCHANGED <<state, models, findings, policy, term, snapshots, docset, confirmed>>

-----------------------------------------------------------------------------
\* The governed policy is bound anew; the contract term is revised.
BindPolicy(l) ==
    /\ policy # l /\ policy' = l
    /\ UNCHANGED <<state, models, findings, term, snapshots, scenarios, docset, confirmed>>

ReviseTerm ==
    /\ term < MaxTerms /\ term' = term + 1
    /\ UNCHANGED <<state, models, findings, policy, snapshots, scenarios, docset, confirmed>>

\* A newer document: every task of the project is superseded.
ReplaceDocument ==
    /\ confirmed /\ docset < MaxSets
    /\ confirmed' = FALSE /\ state' = "BLOCKED"
    /\ models' = [m \in DOMAIN models |->
            IF models[m].task # "none" THEN [models[m] EXCEPT !.task = "SUPERSEDED"]
            ELSE models[m]]
    /\ UNCHANGED <<findings, policy, term, snapshots, scenarios, docset>>

ConfirmSet ==
    /\ ~ confirmed /\ confirmed' = TRUE /\ docset' = docset + 1
    /\ UNCHANGED <<state, models, findings, policy, term, snapshots, scenarios>>

CostNext ==
    \/ \E p \in Person, passed \in BOOLEAN : Propose(p, passed)
    \/ \E m \in DOMAIN models, p \in Person, d \in {"APPROVED", "REJECTED"} : DecideModel(m, p, d)
    \/ \E m \in DOMAIN models : Finalize(m) \/ Calculate(m)
    \/ \E s \in CostState : Move(s)
    \/ \E s \in DOMAIN snapshots : RunScenario(s)
    \/ \E l \in Policy : BindPolicy(l)
    \/ ReviseTerm \/ ReplaceDocument \/ ConfirmSet

CostSpec == CostInit /\ [][CostNext]_costVars

-----------------------------------------------------------------------------
ModelTypeOK ==
    /\ state \in CostState /\ models \in Seq(ModelRow) /\ findings \subseteq DOMAIN models
    /\ snapshots \in Seq(SnapshotRow) /\ scenarios \subseteq ScenarioRow

\* A component has one current model, and the earlier ones of its line were
\* each superseded by a later validated one that names it.
OneCurrentModel ==
    \A d \in 1 .. MaxSets :
        LET validated == {m \in DOMAIN models :
                            models[m].docset = d /\ models[m].status = "VALIDATED"} IN
        /\ Cardinality({m \in validated : models[m].current}) <= 1
        /\ \A m \in validated : models[m].current \/ \E n \in validated :
                                                        models[n].supersedes = m

\* A fixed calculation rests on a validated model under the policy version it
\* fixes, of the document set it fixes; a scenario varies a calculation of the
\* set that was current when it ran.
SnapshotsRestOnModels ==
    /\ \A s \in DOMAIN snapshots :
        LET m == models[snapshots[s].model] IN
        /\ m.status = "VALIDATED" /\ m.policy = snapshots[s].policy
        /\ m.docset = snapshots[s].docset /\ m.task \in {"APPROVED", "SUPERSEDED"}
    /\ \A r \in scenarios : snapshots[r.snapshot].docset = r.docset

\* What the gate lets through is not contradicted by a finding: a validated
\* model that is newest left none unresolved.
ModelStands ==
    /\ OneCurrentModel /\ SnapshotsRestOnModels
    /\ PricingGate => findings \cap OfTarget = {}
=============================================================================
