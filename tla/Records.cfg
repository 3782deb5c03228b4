\* One component at a time; what is settled is at rest
SPECIFICATION RecordsSpec
CONSTANTS
    Person = {p1, p2, p3}
    Estimator = {x, y}
    Policy = {u, v}
    Nobody = Nobody
    NoRow = NoRow
    MaxSets = 2
    Adapter = {"a1", "a2", "a3"}
    Domain <- MCDomain
    Value = {x, y}
    MaxObserved = 2
    Rules = {u, v}
    MaxTerms = 3
    Model = {u, v}
    RiskKey = {"k1", "k2"}
    RequiredKey = {"k1"}
    MaxItems = 3
    Requirements = {u, v}
    Field = {"f1", "f2"}
    MaxFacts = 3
    Quote = {"q1", "q2", "q3"}
    Origin <- MCOrigin
    Group <- MCGroup
    Amount <- MCAmount
    ValidUntil <- MCValidUntil
    SpreadLimit = 1
    Adjustment = {"a"}
    LastDay = 2
    MaxDecisions = 2
    Draft = {"d"}
    Quantity = {"v1", "v2"}
    ImportedQuantity = "v1"
    Upload = {u, v}
    MaxProposals = 2
    MaxLines = 1
    MaxQuantities = 4
    MaxChanges = 3
    MaxModels = 2
    MaxRevisions = 2
    MaxSnapshots = 1
    Digits = 4
    Leg <- MCLeg
    Plan <- MCPlan
    Costing <- MCCosting
    Override <- MCOverride
    Risk <- MCRisk
    DayCount = 3
    Section = {"transport"}
    Scale = 1
    Tolerance = 0
    AllowZeroTotal = FALSE
    Task = {"t"}
    Version = {u, v}
    SigningKey = {x, y}
    Observation = {"plan", "survey", "price"}
    Sources <- MCSources
    CostInput = {"c1", "c2"}
    Basis <- MCBasis
    MaxEvents = 7
    MaxCalculations = 2
    Off = Off
    Key = {"k"}
    Id = {"i"}
    Content = {"c"}
    Receiver = {"r"}
    Worker = {x, y}
    Token = {1, 2, 3, 4, 5, 6}
    NoLease = NoRow
    NoCall = NoRow
    NoClaim = NoRow
    NoQualification = NoRow
    MaxQualifications = 2
    LeaseSeconds = 2
    TimeoutSeconds = 1
    MaxAttempts = 2
    RetryBaseSeconds = 1
    RetryMaxSeconds = 1
    AttemptCap = 4
    MaxGenerations = 3
    MaxFaults = 3
SYMMETRY Symmetry
INVARIANTS StatementsStand CostsStand SumsAgree OneGenerationIsOpen
PROPERTIES VerdictsStay
CHECK_DEADLOCK FALSE
