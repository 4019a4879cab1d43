SPECIFICATION FairSpec
INVARIANTS
  TypeOK
  ObserverWaitsForWork
PROPERTIES
  EndedOnlyAfterSleep
  ThreadJoins
CHECK_DEADLOCK FALSE
