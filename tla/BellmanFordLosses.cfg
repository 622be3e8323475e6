\* The four nodes of the program when nobody gives up early.
SPECIFICATION Spec
CONSTANTS
    N = 4
    Target = 0
    Inf = 999
    MaxIdle = 3
    Cost <- ProgramCost
    Shortest <- ProgramShortest
    Environments <- OnlyPrompt
    None = None
INVARIANT
    AbsoluteConvergence
\* main stops after it has removed the pipes.
CHECK_DEADLOCK FALSE
