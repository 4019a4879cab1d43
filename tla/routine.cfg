SPECIFICATION FairSpec
CONSTANTS
  MaxClients = 2
  MaxFailures = 1
  Quota = 1
  MaxRequests = 2
INVARIANTS
  TypeOK
  StorageHeld
  OneReplyEach
PROPERTIES
  EveryRequestAnswered
  Sessions
  ListensForNext
CHECK_DEADLOCK FALSE
