\* Every kind of source, two calls at a time.
SPECIFICATION Spec
CONSTANTS
    Loaders = {p1, p2}
    Kinds = {"file", "content", "fs", "consul"}
    EmptyDecodes = TRUE
    MaxVersion = 2
INVARIANTS
    LoadDecodesItsOwnRead
