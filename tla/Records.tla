-------------------------------- MODULE Records --------------------------------
(***************************************************************************)
(* The records of an estimate and what is made of them: evidence, contract *)
(* terms, risks, passport, prices, quantities, cost models, sums and       *)
(* signed exports; and the processing of inbox messages, whose module this *)
(* one extends.  The components share no state but the document set, so a  *)
(* behaviour runs one of them ("part") and leaves the others off.          *)
(***************************************************************************)
EXTENDS IntegrationInbox, Sequences, FiniteSets, TLC

CONSTANTS
    \* One meaning each in every component that has it.
    Person, Estimator, Policy, Nobody, NoRow, MaxSets,
    \* Evidence
    Adapter, Domain, Value, MaxObserved,
    \* ContractTerms
    Rules, MaxTerms,
    \* RiskRegister
    Model, RiskKey, RequiredKey, MaxItems,
    \* Passport
    Requirements, Field, MaxFacts,
    \* Prices
    Quote, Origin, Group, Amount, ValidUntil, SpreadLimit, Adjustment, LastDay, MaxDecisions,
    \* BoqQuantities
    Draft, Quantity, ImportedQuantity, Upload, MaxProposals, MaxLines, MaxQuantities, MaxChanges,
    \* CostModels
    MaxModels, MaxRevisions, MaxSnapshots,
    \* CostArithmetic
    Digits, Leg, Plan, Costing, Override, Risk, DayCount, Section, Scale, Tolerance,
    AllowZeroTotal,
    \* Exports
    Task, Version, SigningKey, Observation, Sources, CostInput, Basis, MaxEvents, MaxCalculations,
    Off

VARIABLES
    part, docset, confirmed,
    observed, derived, reviewTasks, records, conflicts, expired, evidencePolicy, revision,
    terms, termTasks, termApprovals, rules, conflict, termGuarded, refused,
    items, riskReviews, riskApprovals, calculation, model, riskDisputed, riskGuarded,
    facts, factReviews, factApprovals, factFindings, requirements, factDisputed,
    match, quotes, normalized, decision, evaluated, priceTasks, rfqs, state, pricePolicy,
    proposals, lines, quantities, unresolved, changes, critical, candidate, uploads,
    costState, models, costFindings, costPolicy, term, snapshots, scenarios,
    sum, mode, result,
    stage, exportTasks, exportRecords, transitions, events, fixed, releases, bound,
    objects, artifacts, signing

Facts == INSTANCE Evidence WITH tasks <- reviewTasks, policy <- evidencePolicy
Contract == INSTANCE ContractTerms WITH
    tasks <- termTasks, approvals <- termApprovals, guarded <- termGuarded
Risks == INSTANCE RiskRegister WITH
    Person <- Estimator, Key <- RiskKey, Required <- RequiredKey,
    reviews <- riskReviews, approvals <- riskApprovals, disputed <- riskDisputed,
    guarded <- riskGuarded
Profile == INSTANCE Passport WITH
    Person <- Estimator,
    reviews <- factReviews, approvals <- factApprovals, findings <- factFindings,
    disputed <- factDisputed
Pricing == INSTANCE Prices WITH
    Person <- Estimator, NoMatch <- NoRow, tasks <- priceTasks, policy <- pricePolicy
Quantities == INSTANCE BoqQuantities WITH
    Person <- Estimator, Value <- Quantity, Row <- ImportedQuantity
Models == INSTANCE CostModels WITH
    Person <- Estimator, MaxTerms <- MaxRevisions,
    state <- costState, findings <- costFindings, policy <- costPolicy
Sums == INSTANCE CostArithmetic WITH Required <- Section, NoResult <- NoRow
Packages == INSTANCE Exports WITH
    Key <- SigningKey, MaxSnapshots <- MaxCalculations,
    tasks <- exportTasks, records <- exportRecords, snapshots <- fixed

\* What the proofs take of the constants: there is a document set, a revision, a
\* bound that counts, and a marker for "nobody" and "no row" that is neither a
\* person nor a row.
PassportConstants == MaxSets \in Nat \ {0}
ContractConstants == MaxSets \in Nat \ {0} /\ MaxTerms \in Nat /\ Nobody \notin Person
PriceConstants ==
    MaxSets \in Nat \ {0} /\ Nobody \notin Estimator /\ NoRow \notin Pricing!MatchRow
QuantityConstants == MaxSets \in Nat \ {0} /\ ImportedQuantity \in Quantity
CostConstants ==
    /\ MaxSets \in Nat \ {0} /\ MaxModels \in Nat /\ MaxRevisions \in Nat \ {0}
    /\ MaxSnapshots \in Nat

\* A source of observations is an adapter or a person; the rows of a manual
\* observation's review and of a conflict.
ReviewTask == [status : {"PENDING", "APPROVED", "REJECTED", "SUPERSEDED"}, by : Person,
               docset : 1 .. MaxSets]
ConflictRow == [status : {"CONFLICT", "VERIFIED"}, by : Person,
                task : {"PENDING", "APPROVED", "SUPERSEDED"}]
EvidenceConstants ==
    /\ MaxSets \in Nat \ {0} /\ Adapter \cap Person = {}
    /\ NoRow \notin ReviewTask /\ NoRow \notin ConflictRow

\* Finitely many observations, and what they and the costs are made of.
LineageConstants ==
    /\ IsFiniteSet(Observation) /\ Sources \in [Observation -> SUBSET Observation]
    /\ Basis \in [CostInput -> SUBSET Observation]
ExportConstants == MaxEvents \in Nat /\ NoRow \notin Packages!TaskRow

ASSUME RecordsAssumption ==
    /\ PassportConstants /\ ContractConstants /\ EvidenceConstants /\ PriceConstants
    /\ QuantityConstants /\ CostConstants /\ LineageConstants /\ ExportConstants

-----------------------------------------------------------------------------
setVars == <<docset, confirmed>>
factsVars == <<observed, derived, reviewTasks, records, conflicts, expired,
    evidencePolicy, revision>>
contractVars == <<terms, termTasks, termApprovals, rules, conflict, termGuarded, refused>>
risksVars == <<items, riskReviews, riskApprovals, calculation, model, riskDisputed,
    riskGuarded>>
profileVars == <<facts, factReviews, factApprovals, factFindings, requirements,
    factDisputed>>
pricingVars == <<match, quotes, normalized, decision, evaluated, priceTasks, rfqs, state,
    pricePolicy>>
quantitiesVars == <<proposals, lines, quantities, unresolved, changes, critical, candidate,
    uploads>>
modelsVars == <<costState, models, costFindings, costPolicy, term, snapshots, scenarios>>
sumsVars == <<sum, mode, result>>
packagesVars == <<stage, exportTasks, exportRecords, transitions, events, fixed, releases,
    bound, objects, artifacts, signing>>
recordsVars == <<part, setVars, factsVars, contractVars, risksVars, profileVars, pricingVars,
                 quantitiesVars, modelsVars, sumsVars, packagesVars, vars>>

\* The document set belongs to the parts that an upload invalidates.
OfDocuments == {"evidence", "contracts", "risks", "passport", "prices", "boq", "costs", "packages"}

FactsOff == /\ observed = Off /\ derived = Off /\ reviewTasks = Off /\ records = Off
            /\ conflicts = Off /\ expired = Off /\ evidencePolicy = Off /\ revision = Off
ContractOff == /\ terms = Off /\ termTasks = Off /\ termApprovals = Off /\ rules = Off
               /\ conflict = Off /\ termGuarded = Off /\ refused = Off
RisksOff == /\ items = Off /\ riskReviews = Off /\ riskApprovals = Off
            /\ calculation = Off /\ model = Off /\ riskDisputed = Off /\ riskGuarded = Off
ProfileOff == /\ facts = Off /\ factReviews = Off /\ factApprovals = Off
              /\ factFindings = Off /\ requirements = Off /\ factDisputed = Off
PricingOff == /\ match = Off /\ quotes = Off /\ normalized = Off /\ decision = Off
              /\ evaluated = Off /\ priceTasks = Off /\ rfqs = Off /\ state = Off
              /\ pricePolicy = Off
QuantitiesOff == /\ proposals = Off /\ lines = Off /\ quantities = Off /\ unresolved = Off
                 /\ changes = Off /\ critical = Off /\ candidate = Off /\ uploads = Off
ModelsOff == /\ costState = Off /\ models = Off /\ costFindings = Off /\ costPolicy = Off
             /\ term = Off /\ snapshots = Off /\ scenarios = Off
SumsOff == sum = Off /\ mode = Off /\ result = Off
PackagesOff == /\ stage = Off /\ exportTasks = Off /\ exportRecords = Off /\ transitions = Off
               /\ events = Off /\ fixed = Off /\ releases = Off /\ bound = Off
               /\ objects = Off /\ artifacts = Off /\ signing = Off
InboxOff == /\ inbox = Off /\ call = Off /\ receipts = Off /\ processing = Off
            /\ handler = Off /\ active = Off /\ claim = Off /\ faults = Off

RecordsInit ==
    /\ part \in OfDocuments \cup {"sums", "inbox"}
    /\ part \notin OfDocuments => docset = Off /\ confirmed = Off
    /\ IF part = "evidence" THEN Facts!EvidenceInit ELSE FactsOff
    /\ IF part = "contracts" THEN Contract!TermInit ELSE ContractOff
    /\ IF part = "risks" THEN Risks!RiskInit ELSE RisksOff
    /\ IF part = "passport" THEN Profile!PassportInit ELSE ProfileOff
    /\ IF part = "prices" THEN Pricing!PriceInit ELSE PricingOff
    /\ IF part = "boq" THEN Quantities!BoqInit ELSE QuantitiesOff
    /\ IF part = "costs" THEN Models!CostInit ELSE ModelsOff
    /\ IF part = "sums" THEN Sums!SumInit ELSE SumsOff
    /\ IF part = "packages" THEN Packages!ExportInit ELSE PackagesOff
    /\ IF part = "inbox" THEN Init ELSE InboxOff

\* The variables of the components that do not run stay off.
Frame(component, variables) == IF part = component THEN TRUE ELSE UNCHANGED variables

RecordsNext ==
    /\ UNCHANGED part
    /\ \/ part = "evidence" /\ Facts!EvidenceNext
       \/ part = "contracts" /\ Contract!TermNext
       \/ part = "risks" /\ Risks!RiskNext
       \/ part = "passport" /\ Profile!PassportNext
       \/ part = "prices" /\ Pricing!PriceNext
       \/ part = "boq" /\ Quantities!BoqNext
       \/ part = "costs" /\ Models!CostNext
       \/ part = "packages" /\ Packages!ExportNext
       \/ part = "sums" /\ Sums!SumNext /\ UNCHANGED setVars
       \/ part = "inbox" /\ Next /\ UNCHANGED setVars
    /\ Frame("evidence", factsVars) /\ Frame("contracts", contractVars)
    /\ Frame("risks", risksVars) /\ Frame("passport", profileVars)
    /\ Frame("prices", pricingVars) /\ Frame("boq", quantitiesVars)
    /\ Frame("costs", modelsVars) /\ Frame("sums", sumsVars)
    /\ Frame("packages", packagesVars) /\ Frame("inbox", vars)

RecordsSpec == RecordsInit /\ [][RecordsNext]_recordsVars

\* People of a group and versions of one kind differ in nothing but their names.
Symmetry ==
    Permutations(Person) \cup Permutations(Estimator) \cup Permutations(Policy)

-----------------------------------------------------------------------------
\* What a stage gate takes from evidence, contract, risk register and passport
\* rests on independent sources or on a review by somebody else, over the
\* documents of the current set (reconcile, decide_manual_evidence, the gates).
StatementsStand ==
    /\ part = "evidence" => Facts!DerivedIsJustified
    /\ part = "contracts" => Contract!TermTypeOK /\ Contract!TermStands
    /\ part = "risks" => Risks!RiskTypeOK /\ Risks!ReserveStands
    /\ part = "passport" => Profile!PassportTypeOK /\ Profile!PassportStands

\* What a calculation takes from prices, quantities and cost models still
\* follows from what it was decided on, and the package that is exported says
\* what its release decision saw.
CostsStand ==
    /\ part = "prices" => Pricing!PriceTypeOK /\ Pricing!PriceStands
    /\ part = "boq" => Quantities!QuantityTypeOK /\ Quantities!QuantityStands
    /\ part = "costs" => Models!ModelTypeOK /\ Models!ModelStands
    /\ part = "packages" => Packages!ExportTypeOK /\ Packages!ExportStands

\* The two paths of a sum compute one number, to a unit where a last digit may
\* differ, and what was accepted is the exact number as near as it is rounded
\* (evaluate_commercial_cost, calculate_reserve, validate_independently).
SumsAgree == part = "sums" => Sums!SumsStand

\* A message has at most one open generation (replay_dead_letter).
OneGenerationIsOpen == part = "inbox" => TypeOK /\ OneOpenGeneration

\* A settled generation of a message stays as it was settled: no late handler,
\* replay or repeated delivery changes its verdict.
VerdictsStay ==
    [][part = "inbox" => \A p \in Processing : Settled(processing[p]) =>
          processing'[p] \in {processing[p], AgedRow(processing[p])}]_recordsVars
=============================================================================
