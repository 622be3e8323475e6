\* One client whose pid needs more than 16 bits.
CONSTANTS
  Clients = {65636}
SPECIFICATION FairSpec
INVARIANT OwnReplyAccepted
CHECK_DEADLOCK FALSE
