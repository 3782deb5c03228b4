\* One component at a time; a project or campaign that ended, or what is settled, is at rest
SPECIFICATION Spec
CONSTANTS
    Person = {p1, p2, p3}
    Build = {x, y}
    Policy = {u, v}
    Nobody = Nobody
    NoRow = NoRow
    MaxSets = 2
    MaxAge = 1
    LastDay = 2
    Member = {q1, q2, q3}
    Creator = q1
    Role = {"estimator"}
    MaxRevisions = 2
    NoChange = NoChange
    Version = {x, y}
    VersionKind = {"norm_method", "adapter"}
    AdapterKind = "adapter"
    Purpose = {"norms", "prices"}
    LastValidDay = 1
    MaxBindings = 2
    NoVersion = NoVersion
    Expert = {x, y}
    Subject = {"scope"}
    Change = {ManualChange}
    Upload = {u, v}
    MaxStamps = 3
    NoTask = NoTask
    NoPage = NoPage
    Worker = {x, y}
    Request = {u, v}
    Stage = {"PRICING_IN_PROGRESS"}
    Blocked = "BLOCKED"
    MaxAttempts = 2
    MaxVersion = 4
    NoHolder = NoHolder
    Examiner = {p1, p2, p3, q2, q3}
    Case = {"actual", "reference"}
    Historical = {"actual"}
    Open = Open
    Package = {"e1"}
    MaxActuals = 2
    FinalOutcome = {x, y}
    Call = {p1, p2, p3}
    Caller = {x, y}
    Organization = Organization
    CallerLimit = 1
    OrganizationLimit = 2
    WindowSeconds = 2
    LastSecond = 3
    NoBucket = NoRow
    Chain = {x, y}
    Admin = {"admin", "operator"}
    Checkpoint = {u, v}
    Key = {"old key", "new key"}
    LastMoment = 3
    Snapshot = {"golden", "other"}
    Basis = {"norm"}
    Golden = {"golden"}
    Defect = {"none", "schema", "audit"}
    Evidence = {"decision"}
    MaxRPO = 1
    MaxRTO = 1
    LastHour = 3
    MaxDerived = 1
    NoExercise = NoRow
    Off = Off
SYMMETRY Symmetry
INVARIANTS OwnerRemains ApprovalsAreCurrent DispatchedOnce CampaignStands ReliedOnStands
           LearnedIndependently QuotaHolds AnchorProvesHistory PassedRestoreIsComplete
PROPERTIES HistoriesAccepted
CHECK_DEADLOCK FALSE
