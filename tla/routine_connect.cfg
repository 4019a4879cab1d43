SPECIFICATION Spec
CONSTANTS
  MaxClients = 2
  MaxFailures = 1
  Quota = 1
  MaxRequests = 1
PROPERTY FalseMeansConnected
CHECK_DEADLOCK FALSE
