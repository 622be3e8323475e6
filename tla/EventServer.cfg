\* The five TCP servers of hands-on 1 to 4 with three clients.
\* A server that waits for connections may wait for ever.
CONSTANTS
  Clients = {c1, c2, c3}
  Testers = {c3}
  WrongRounds = {4}
  NoClient = NoClient
  Fin = Fin
  Rst = Rst
  MAX_CLIENTS = 2
  MAX_FIB = 4
  MaxKills = 1
SPECIFICATION FairSpec
INVARIANTS TypeOK Verdicts
PROPERTIES AllServed
CHECK_DEADLOCK FALSE
