\* A BoQ of an earlier document set is calculated
SPECIFICATION Spec
CONSTANTS
    Document = {a, b}
    Person = {x, y}
    Draft = {d1}
    MaxUploads = 3
    None = None
SYMMETRY Symmetry
CONSTRAINT PricingOnly
INVARIANTS SnapshotMatchesItsBoq
CHECK_DEADLOCK FALSE
