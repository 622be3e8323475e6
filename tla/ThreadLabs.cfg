\* The exercises with the program's own numbers; the counter with two
\* threads of five increments; the fork-join programs with small inputs that
\* leave a remainder everywhere.
SPECIFICATION Spec
CONSTANTS
    MaxThreads = 2
    MaxValue = 5
    GateThreads = 5
    Limit = 2
    SemThreads = 5
    CondThreads = 4
    BufferSize = 5
    NumItems = 15
    None = None
    MAX_NUMBER = 29
    MAX_THREAD = 3
    NumCores = 2
    Alphabet = {"a", "b", " "}
    Space = " "
    TextLen = 5
    num_mappers = 2
    num_examples = 5
    num_workers = 2
    num_rounds = 2
    Garbage = {0}
INVARIANTS
    TypeOK
    FinalValue
    SemaphoresBalance
    JoinWaits
    ResultRight
PROPERTIES
    ImplementAbstract
    AllEnd
\* Every exercise ends.
CHECK_DEADLOCK FALSE
