\* Three terminals, two tokens, a table of two slots for three ids.
SPECIFICATION MCSpec
CONSTANTS
    c1 = c1
    c2 = c2
    c3 = c3
    short = short
    long = long
    None = None
    Clients <- AllClients
    Ids <- ThreeIds
    Values <- TwoValues
    Requests <- Commands
    RowLen <- Lengths
    Room = 5
    MaxRecords = 2
    MaxNum = 2
    Backlog = 2
    MaxOps = 2
    MaxFaults = 1
    FaultKinds = {"accept", "create"}
INVARIANTS
    TypeOK
    UniqueIds
    ScanStillTrue
    TokenAccounting
    Handover
PROPERTIES
    ImplementsBank
    Answered
    EveryoneServed
\* Terminals that have all gone leave main in accept for ever.
CHECK_DEADLOCK FALSE
