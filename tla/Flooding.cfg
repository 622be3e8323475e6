\* The four agents of the program; timeouts at any moment and prompt ones.
SPECIFICATION Spec
CONSTANTS
    N = 4
    Initiator = 0
    Neighbours <- ProgramNeighbours
    MaxIdle = 3
INVARIANTS
    TypeOK
    SpanningTree
    OnePerLink
    NobodyExitsUninformed
PROPERTY
    AllInformed
\* An agent that exits early leaves its neighbours blocked in open for ever.
CHECK_DEADLOCK FALSE
