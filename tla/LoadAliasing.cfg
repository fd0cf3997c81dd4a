\* Two Loads, at the same time or one after the other, of three sources with any
\* kind of value, any of them in memory.
SPECIFICATION Spec
CONSTANTS
    Loaders = {p1, p2}
    NumSources = 3
    Shapes = {"none", "scalar", "map", "slice"}
    Steps <- MCSteps
    Inner = {"x"}
    MaxLoads = 2
SYMMETRY MCSymmetry
INVARIANTS
    SnapshotsStay
    SourcesAreUntouched
    LoadsDoNotInterfere
    NoDataRaces
