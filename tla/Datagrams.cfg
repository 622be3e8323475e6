\* Three clients with pids of 16 bits; that of the second makes the checksum
\* carry twice.
CONSTANTS
  Clients = {100, 54747, 65535}
SPECIFICATION FairSpec
INVARIANTS TypeOK AnswersMatch
PROPERTIES AllEnd
\* A UDP client whose datagram was lost waits for ever.
CHECK_DEADLOCK FALSE
