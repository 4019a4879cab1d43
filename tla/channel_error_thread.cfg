SPECIFICATION Spec
CONSTANTS
  Capacity = 1
  ReadBufSize = 1
  MessageSize <- MCFits
  Destroyers <- MCBothDestroy
  MaxSend <- MCOneEach
PROPERTY ErrorUpdatesOnIOThread
CHECK_DEADLOCK FALSE
