\* The four nodes of the program, in both environments.
SPECIFICATION Spec
CONSTANTS
    N = 4
    Diameter = 2
    Neighbours <- ProgramNeighbours
    Uid <- ProgramUid
INVARIANTS
    TypeOK
    SynchronousRounds
    Agreement
PROPERTY
    AllDecide
\* A node that lost a message reads for ever, as the program would.
CHECK_DEADLOCK FALSE
