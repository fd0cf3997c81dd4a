\* A File with a path, two concurrent calls.
SPECIFICATION Spec
CONSTANTS
    Loaders = {p1, p2}
    Kinds = {"file"}
    EmptyDecodes = TRUE
    MaxVersion = 2
INVARIANTS
    ConcurrentLoadsDecodeTheirOwnReads
