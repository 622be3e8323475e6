\* The four nodes of the program under every timing.
SPECIFICATION Spec
CONSTANTS
    N = 4
    Target = 0
    Inf = 999
    MaxIdle = 2
    Cost <- ProgramCost
    Shortest <- ProgramShortest
    Environments <- AnyTiming
    None = None
INVARIANTS
    TypeOK
    NeverTooShort
    RoutesDescend
    ExitsConverged
PROPERTY
    AllExit
\* A node that exits early leaves its neighbours blocked in open for ever.
CHECK_DEADLOCK FALSE
