SPECIFICATION FairSpec
CONSTANTS
  r1 = r1
  r2 = r2
  Requests <- MCRequests
  MaxStatements = 1
  MaxFaults = 1
INVARIANTS
  CleanExit
  HealthTrue
PROPERTIES
  StopEnds
  HealthAnswers
  EventuallyServes
