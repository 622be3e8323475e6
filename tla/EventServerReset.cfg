\* The server of hands-on 3 with two clients, one of them killed.
\* A server that waits for connections may wait for ever.
CONSTANTS
  Clients = {c1, c2}
  Testers = {}
  WrongRounds = {}
  NoClient = NoClient
  Fin = Fin
  Rst = Rst
  MAX_CLIENTS = 2
  MAX_FIB = 1
  MaxKills = 1
SPECIFICATION Spec
INVARIANT NoInterference
CHECK_DEADLOCK FALSE
