SPECIFICATION Spec
CONSTANTS
  Capacity = 1
  ReadBufSize = 1
  MessageSize <- MCFits
  Destroyers <- MCBothDestroy
  MaxSend <- MCSends
INVARIANTS
  TypeOK
  InOrder
  OneReadOutstanding
  NothingUsedAfterFree
  NoBusyLoop
PROPERTIES
  SecondCloseIsARace
  ErrorIsFinal
  NothingAfterFailure
  Streams
CHECK_DEADLOCK FALSE
