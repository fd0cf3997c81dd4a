\* Two loaders, two sources that change, a step, a hook and a Validate.  A hook
\* that calls Load stops everything.
SPECIFICATION FairSpec
CONSTANTS
    Loaders = {p1, p2}
    NoLoader = NoLoader
    NumSources = 2
    NumSteps = 1
    StepKind <- MCStepKind
    HasBinding = TRUE
    NumHooks = 1
    HasValidate = TRUE
    MaxVersion = 2
CHECK_DEADLOCK FALSE
INVARIANTS
    TypeOK
    BindingAgrees
    AllOrNothing
    PublishedIsComplete
    CancelStopsReading
PROPERTIES
    AloneNeverGoesBack
    ImplementsConfigStore
    LoadReturns
    ReentryFreezes
