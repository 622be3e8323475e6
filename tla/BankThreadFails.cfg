\* One failing pthread_create.
SPECIFICATION MCSpec
CONSTANTS
    c1 = c1
    c2 = c2
    c3 = c3
    short = short
    long = long
    None = None
    Clients <- AllClients
    Ids <- ThreeIds
    Values <- TwoValues
    Requests <- OneAdd
    RowLen <- Lengths
    Room = 5
    MaxRecords = 1
    MaxNum = 2
    Backlog = 2
    MaxOps = 1
    MaxFaults = 1
    FaultKinds = {"create"}
PROPERTY
    TokenComesBack
\* Terminals that have all gone leave main in accept for ever.
CHECK_DEADLOCK FALSE
