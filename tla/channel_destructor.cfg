SPECIFICATION FairSpec
CONSTANTS
  Capacity = 1
  ReadBufSize = 1
  MessageSize <- MCFits
  Destroyers <- MCBothDestroy
  MaxSend <- MCNone
PROPERTY DestructorBreaksLoop
CHECK_DEADLOCK FALSE
