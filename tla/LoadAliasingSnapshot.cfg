\* Is a snapshot immutable whatever the sources hold?
SPECIFICATION Spec
CONSTANTS
    Loaders = {p1}
    NumSources = 3
    Shapes = {"scalar", "map"}
    Steps <- MCSubst
    Inner = {"x"}
    MaxLoads = 2
INVARIANTS
    SnapshotsAreImmutable
