SPECIFICATION FairSpec
CONSTANTS
  N = 2
  Quota = 1
  MaxSessions = 3
  MaxRequests = 2
INVARIANTS
  TypeOK
  EventMeansDone
  OneReplyEach
PROPERTIES
  EveryRequestAnswered
  Sessions
  ListensAgain
CHECK_DEADLOCK FALSE
