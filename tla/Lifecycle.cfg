\* Two documents and three uploads up to the calculation; one document and its
\* replacement through every gate; an archived project is at rest
SPECIFICATION LifecycleSpec
CONSTANTS
    Document = {a}
    Several = {a, b}
    Person = {x, y}
    Draft = {d1}
    MaxUploads = 2
    ManyUploads = 3
    None = None
SYMMETRY LifecycleSymmetry
CONSTRAINT Bound
INVARIANTS
    ConfirmedSetIsCurrent
    LatestRevisionIsCurrent
    PricesFollowTheSet
    ReleaseIsCurrent
PROPERTIES ReleaseIsFrozen
CHECK_DEADLOCK FALSE
