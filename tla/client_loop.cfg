SPECIFICATION FairSpec
CONSTANTS
  MaxClients = 1
  Quota = 1
  MaxRequests = 1
  Messages = 3
PROPERTY WholeReplyEndsLoop
CHECK_DEADLOCK FALSE
