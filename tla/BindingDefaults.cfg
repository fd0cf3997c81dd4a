\* Two goroutines fill structs of nested and of recursive types. All calls may
\* have returned.
SPECIFICATION FairSpec
CONSTANTS
    Goroutines = {g1, g2}
    Types <- AllTypes
    Fields <- AllFields
    Starts <- MCStarts
    StackLimit = 9
CHECK_DEADLOCK FALSE
INVARIANTS
    CacheIsRight
    DefaultsAreComplete
    OnlyRecursiveTypesOverflow
PROPERTIES
    CallReturns
