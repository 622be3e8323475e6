\* The five nodes of the program, in both environments.
SPECIFICATION Spec
CONSTANTS
    N = 5
    Uid <- ProgramUid
    None = None
INVARIANTS
    TypeOK
    LeaderIsMax
    LeaderStopsLast
    ReadTakesAll
PROPERTY
    Elected
\* A node that lost the announcement reads for ever, as the program would.
CHECK_DEADLOCK FALSE
