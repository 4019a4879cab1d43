SPECIFICATION Spec
CONSTANTS
  Capacity = 1
  ReadBufSize = 1
  MessageSize <- MCFits
  Destroyers <- MCBothDestroy
  MaxSend <- MCOneEach
INVARIANT ReportedErrorIsRecorded
CHECK_DEADLOCK FALSE
