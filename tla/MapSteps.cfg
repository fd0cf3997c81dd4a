\* Two merges, then a Set or a Delete.
SPECIFICATION Spec
CONSTANTS
    SourceTrees <- MCSourceTrees
    NumSources = 2
    Paths <- MCPaths
    EditPaths <- MCEditPaths
    NewValues <- MCNewValues
    MaxSteps = 1
    MaxDepth = 3
    ClassOf <- MCClassOf
PROPERTIES
    KeysStayFoldUnique
    MergeIsOverlay
    FirstCasingIsKept
    EditsMeetGet
    AccessorsFollowSources
    StepsMakeTheResult
