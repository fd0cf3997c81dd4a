\* Every list of at most three options, made anew or used again.
SPECIFICATION Spec
CONSTANTS
    Options <- MCAllOptions
    ArgLists <- MCArgLists
    Nesting = 2
INVARIANTS
    InstanceFollowsOptions
    ErrorsAreComplete
    PathsAreCurrent
