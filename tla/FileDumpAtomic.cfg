\* Is a file whole at every moment?
SPECIFICATION Spec
CONSTANTS
    Callers = {p1, p2}
    NumDumpers = 1
    MaxVersion = 1
INVARIANTS
    DumpIsAtomic
