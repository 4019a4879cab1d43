SPECIFICATION FairSpec
CONSTANT MaxMessages = 3
INVARIANTS
  TypeOK
  OneOperation
  NoLostWakeup
PROPERTIES
  ClientServedToEnd
CHECK_DEADLOCK FALSE
