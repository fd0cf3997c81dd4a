\* One source and two steps, or two sources and a step.
SPECIFICATION Spec
CONSTANTS
    SourceTrees <- MCSourceTrees
    Environments <- MCEnvironments
    Schemas <- MCSchemas
    Paths <- MCPaths
    ElementPaths <- MCElementPaths
    Fields <- MCFields
    Callbacks <- MCCallbacks
    MaxElements = 2
    ClassOf <- MCClassOf
    MaxSources = 2
    MaxOps = 3
PROPERTIES
    KeysStayFoldUnique
    EveryVariableIsFound
    NestedKeysWin
    DefaultsKeepValues
    DefaultsFillGaps
    ElementsReachTheParent
    ChangesStayLocal
    WalkIsComplete
