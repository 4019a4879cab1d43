SPECIFICATION FairSpec
CONSTANTS
  MaxClients = 2
  Quota = 1
  MaxRequests = 2
  Messages = 3
INVARIANTS
  ClientTypeOK
  OneOwner
PROPERTIES
  RepliesFlushed
  Sessions
  ListensForNext
  AllAnswered
CHECK_DEADLOCK FALSE
