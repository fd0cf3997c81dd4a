\* Two callers and two files, with crashes, failures and edits at every step.
SPECIFICATION Spec
CONSTANTS
    Callers = {p1, p2}
    NumDumpers = 2
    MaxVersion = 1
SYMMETRY MCSymmetry
PROPERTIES
    SuccessWritesOneSnapshot
    FailureIsAPrefix
