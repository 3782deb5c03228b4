\* A snapshot is released after its rework was requested
SPECIFICATION Spec
CONSTANTS
    Document = {a}
    Person = {x, y}
    Draft = {d1}
    MaxUploads = 1
    None = None
SYMMETRY Symmetry
INVARIANTS ReworkedSnapshotIsNotReleased
CHECK_DEADLOCK FALSE
