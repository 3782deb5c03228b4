------------------------------- MODULE Prices -------------------------------
(***************************************************************************)
(* The price of one item: matched to the catalog, quoted by independent    *)
(* origins, normalized under the bound price policy and evaluated at a     *)
(* date.  A spread of prices waits for an expert; missing sources open a   *)
(* request for quotations; a replaced document expires the decision.       *)
(* Approval tasks are planned per evaluation and are found again.          *)
(***************************************************************************)
EXTENDS Naturals, FiniteSets, Sequences, TLC

CONSTANTS
    Person, Policy,
    Quote,           \* verified quotations of the item
    Origin, Group, Amount, ValidUntil,  \* functions of a quote
    SpreadLimit,     \* the spread above which an expert decides
    Adjustment,      \* normalization commands
    LastDay,         \* bound: dates
    MaxSets,         \* bound: document sets
    MaxDecisions,    \* bound: price decisions
    NoMatch, Nobody

VARIABLES
    match,       \* the current nomenclature match
    quotes,      \* [Quote -> status]
    normalized,  \* normalized_prices
    decision,    \* the current price decision
    evaluated,   \* how many were made
    tasks,       \* [evaluation -> status of its approval task]
    rfqs,        \* open requests: the missing groups they name
    state,       \* state of the project
    policy, docset, confirmed

priceVars == <<match, quotes, normalized, decision, evaluated, tasks, rfqs, state,
               policy, docset, confirmed>>

decisionVars == <<decision, evaluated>>
boundVars == <<policy, docset, confirmed>>

Day == 1 .. LastDay

\* NomenclatureMatchRow; proposer and approver of an analogue.
MatchRow == [class : {"EXACT", "MISMATCH", "ANALOGUE"},
             status : {"VERIFIED", "REJECTED", "IN_REVIEW"}, docset : 1 .. MaxSets,
             proposer : Person \cup {Nobody}, approver : Person \cup {Nobody},
             task : {"none", "PENDING", "APPROVED", "REJECTED", "SUPERSEDED"}]

NormalizedRow == [quote : Quote, by : Adjustment, policy : Policy]

PriceInit ==
    /\ match = NoMatch
    /\ quotes = [q \in Quote |-> "none"] /\ normalized = {}
    /\ decision = NoMatch /\ evaluated = 0 /\ tasks = <<>> /\ rfqs = {}
    /\ state = "PRICING_IN_PROGRESS"
    /\ policy \in Policy /\ docset = 1 /\ confirmed = TRUE

-----------------------------------------------------------------------------
\* _require_pricing_state.
PricingState == state \in {"PRICING_IN_PROGRESS", "RFQ_REQUIRED"}

\* assess_nomenclature: an exact match, or critical attributes that differ.
Assess(class) ==
    /\ PricingState /\ confirmed
    /\ match' = [class |-> class, docset |-> docset, proposer |-> Nobody, approver |-> Nobody,
                 status |-> IF class = "EXACT" THEN "VERIFIED" ELSE "REJECTED", task |-> "none"]
    /\ UNCHANGED <<quotes, normalized, decisionVars, tasks, rfqs, state, boundVars>>

ProposeAnalogue(p) ==
    /\ PricingState
    /\ match # NoMatch /\ match.class \in {"MISMATCH", "ANALOGUE"}
    /\ match' = [match EXCEPT !.class = "ANALOGUE", !.status = "IN_REVIEW", !.proposer = p,
                              !.approver = Nobody, !.task = "PENDING"]
    /\ UNCHANGED <<quotes, normalized, decisionVars, tasks, rfqs, state, boundVars>>

\* The technical expert's decision of the analogue task (ApprovalService.decide).
DecideAnalogue(p, verdict) ==
    /\ match # NoMatch /\ match.task = "PENDING" /\ match.proposer # p
    /\ match' = [match EXCEPT !.task = verdict,
                              !.approver = IF verdict = "APPROVED" THEN p ELSE @]
    /\ UNCHANGED <<quotes, normalized, decisionVars, tasks, rfqs, state, boundVars>>

\* finalize_analogue reads the tasks and nothing else.
FinalizeAnalogue ==
    /\ PricingState
    /\ match # NoMatch /\ match.status = "IN_REVIEW" /\ match.task = "APPROVED"
    /\ match' = [match EXCEPT !.status = "VERIFIED"]
    /\ UNCHANGED <<quotes, normalized, decisionVars, tasks, rfqs, state, boundVars>>

\* _nomenclature_match_integrity_blockers.
MatchIntact == confirmed /\ match.docset = docset

\* _verified_match_for_item.
MatchVerified == /\ match # NoMatch
                 /\ match.status = "VERIFIED" /\ match.class # "MISMATCH"
                 /\ MatchIntact

RecordQuote(q) ==
    /\ PricingState /\ MatchVerified /\ quotes[q] = "none"
    /\ quotes' = [quotes EXCEPT ![q] = "UNNORMALIZED"]
    /\ UNCHANGED <<match, normalized, decisionVars, tasks, rfqs, state, boundVars>>

\* _normalization_request: the references of the command, resolved in the bound
\* policy.
Normalization(q, c) == [quote |-> q, by |-> c, policy |-> policy]

\* normalize_price: the row of this quotation, command and policy, once.
NormalizePrice(q, c) ==
    /\ PricingState /\ MatchVerified /\ quotes[q] \in {"UNNORMALIZED", "NORMALIZED"}
    /\ normalized' = normalized \cup {Normalization(q, c)}
    /\ quotes' = [quotes EXCEPT ![q] = "NORMALIZED"]
    /\ UNCHANGED <<match, decisionVars, tasks, rfqs, state, boundVars>>

-----------------------------------------------------------------------------
Quoted(rows) == {r.quote : r \in rows}

\* The rows an evaluation at a date may use.
Eligible(asOf) == {r \in normalized : r.policy = policy /\ asOf <= ValidUntil[r.quote]}

\* evaluate_triangulation: every group of sources is there.
Missing(rows) == {Group[q] : q \in Quote} \ {Group[q] : q \in Quoted(rows)}

\* Mutant: origins are counted per quotation and not per price.
OriginsDiffer(rows) == rows # {}

\* Each price comes from an origin of its own.
Independent(rows) ==
    rows # {} /\ Cardinality({Origin[r.quote] : r \in rows}) = Cardinality(rows)

\* The approval policy demands an expert.
WideSpread(rows) ==
    \E q, r \in Quoted(rows) : Amount[q] - Amount[r] > SpreadLimit

Evaluation(rows, asOf) == [rows |-> rows, asOf |-> asOf, policy |-> policy]

\* No task is planned, or the one of this evaluation is approved.
TasksApproved(rows, asOf) ==
    WideSpread(rows) => /\ Evaluation(rows, asOf) \in DOMAIN tasks
                        /\ tasks[Evaluation(rows, asOf)] = "APPROVED"

Outcome(rows, asOf) ==
    IF Missing(rows) # {} \/ ~ Independent(rows) THEN "RFQ_REQUIRED"
    ELSE IF TasksApproved(rows, asOf) THEN "VERIFIED" ELSE "EXPERT_REVIEW_REQUIRED"

Planned(rows, asOf) ==
    IF Missing(rows) = {} /\ Independent(rows) /\ WideSpread(rows)
        THEN tasks @@ (Evaluation(rows, asOf) :> "PENDING") ELSE tasks

\* _open_rfq: a request is found again by what it misses.
Request(rows) == [missing |-> Missing(rows), alone |-> ~ Independent(rows), policy |-> policy]

\* A verified price closes all of them (_close_rfqs).
Requested(status, rows) ==
    CASE status = "RFQ_REQUIRED" -> rfqs \cup {Request(rows)}
      [] status = "VERIFIED" -> {}
      [] OTHER -> rfqs

\* _sync_project_pricing_state; clear: no other item or model blocks the gate.
Synced(status, clear) ==
    CASE status = "RFQ_REQUIRED" /\ state = "PRICING_IN_PROGRESS" -> "RFQ_REQUIRED"
      [] status = "EXPERT_REVIEW_REQUIRED" -> "EXPERT_REVIEW"
      [] status = "VERIFIED" /\ clear -> "PRICING_IN_PROGRESS"
      [] OTHER -> state

EvaluateItemPrice(asOf, clear) ==
    LET rows == Eligible(asOf)
        status == Outcome(rows, asOf)
    IN
    /\ state \in {"PRICING_IN_PROGRESS", "RFQ_REQUIRED", "EXPERT_REVIEW"} /\ MatchVerified
    /\ evaluated < MaxDecisions /\ evaluated' = evaluated + 1
    /\ decision' = [status |-> status, rows |-> rows, asOf |-> asOf,
                    policy |-> policy, docset |-> docset]
    /\ tasks' = Planned(rows, asOf)
    /\ rfqs' = Requested(status, rows)
    /\ state' = Synced(status, clear)
    /\ UNCHANGED <<match, quotes, normalized, boundVars>>

\* The expert's decision of a planned task.
DecideSpread(e, verdict) ==
    /\ tasks[e] = "PENDING"
    /\ tasks' = [tasks EXCEPT ![e] = verdict]
    /\ UNCHANGED <<match, quotes, normalized, decisionVars, rfqs, state, boundVars>>

-----------------------------------------------------------------------------
\* _invalidate_derived_records: matches go back to review, the current
\* decision is followed by an expired copy, tasks are superseded.
ReplaceDocument ==
    /\ docset < MaxSets /\ docset' = docset + 1 /\ confirmed' = FALSE
    /\ match' = IF match = NoMatch THEN match
                ELSE [match EXCEPT !.status = "IN_REVIEW",
                                   !.task = IF @ = "none" THEN @ ELSE "SUPERSEDED"]
    /\ decision' = IF decision = NoMatch THEN decision
                   ELSE [decision EXCEPT !.status = "EXPIRED"]
    /\ UNCHANGED evaluated
    /\ tasks' = [e \in DOMAIN tasks |-> "SUPERSEDED"]
    /\ state' = "BLOCKED"
    /\ UNCHANGED <<quotes, normalized, rfqs, policy>>

\* The set is confirmed and the project comes back to pricing.
ConfirmSet == /\ ~ confirmed /\ confirmed' = TRUE /\ state' = "PRICING_IN_PROGRESS"
              /\ UNCHANGED <<match, quotes, normalized, decisionVars, tasks, rfqs, policy, docset>>

BindPolicy(v) ==
    /\ v # policy /\ policy' = v
    /\ UNCHANGED <<match, quotes, normalized, decisionVars, tasks, rfqs, state, docset, confirmed>>

PriceNext ==
    \/ \E c \in {"EXACT", "MISMATCH"} : Assess(c)
    \/ \E p \in Person : \/ ProposeAnalogue(p)
                         \/ \E d \in {"APPROVED", "REJECTED"} : DecideAnalogue(p, d)
    \/ FinalizeAnalogue
    \/ \E q \in Quote : RecordQuote(q) \/ \E c \in Adjustment : NormalizePrice(q, c)
    \/ \E day \in Day, clear \in BOOLEAN : EvaluateItemPrice(day, clear)
    \/ \E e \in DOMAIN tasks, d \in {"APPROVED", "REJECTED"} : DecideSpread(e, d)
    \/ ReplaceDocument \/ ConfirmSet
    \/ \E v \in Policy : BindPolicy(v)

PriceSpec == PriceInit /\ [][PriceNext]_priceVars

-----------------------------------------------------------------------------
PriceTypeOK == /\ match \in MatchRow \cup {NoMatch}
               /\ normalized \subseteq NormalizedRow
               /\ PricingState \/ state \in {"EXPERT_REVIEW", "BLOCKED"}
               /\ decision # NoMatch => evaluated > 0

\* The verdict of a decision is the one its rows and tasks give now ...
VerdictReproduces ==
    decision.status = "VERIFIED" =>
        /\ Missing(decision.rows) = {} /\ Independent(decision.rows)
        /\ TasksApproved(decision.rows, decision.asOf)

\* ... under the bound policy and of the current set: the price that a
\* calculation may use (require_price_decision_integrity).
PriceVerifies ==
    /\ decision # NoMatch /\ MatchVerified
    /\ decision.status = "VERIFIED" /\ decision.policy = policy /\ decision.docset = docset
    /\ VerdictReproduces

\* A price that counts rests on as many valid origins as there are groups, one
\* price each; its item is matched exactly or by four eyes; nobody still asks
\* for quotations of it; and its spread, if wide, was approved for these prices.
PriceStands ==
    PriceVerifies =>
        /\ \A r, s \in decision.rows : r # s => Origin[r.quote] # Origin[s.quote]
        /\ \A r \in decision.rows : r.policy = policy /\ decision.asOf <= ValidUntil[r.quote]
        /\ match.class = "ANALOGUE" => match.approver \notin {Nobody, match.proposer}
        /\ rfqs = {}
        /\ WideSpread(decision.rows) =>
              \E e \in DOMAIN tasks : tasks[e] = "APPROVED" /\ e.rows = decision.rows
=============================================================================
