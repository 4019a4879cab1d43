SPECIFICATION TestSpec
CONSTANTS
  Capacity = 1
  ReadBufSize = 1
  MessageSize <- MCLong
  Destroyers <- MCEnds
  MaxSend <- MCSends
  CommandLines <- MCCommandLines
INVARIANTS
  NoMisfitDelivered
PROPERTIES
  EventuallyDelivered
  ReadFailureReported
  DestructorReturns
  SendLoopEnds
CHECK_DEADLOCK FALSE
