SPECIFICATION FairSpec
CONSTANTS
  c1 = c1
  c2 = c2
  r1 = r1
  Creates <- MCCreates
  Reviews <- MCReviews
  Requests <- MCRequests
  Ids <- MCCreates
  Users = {alice}
  Notes = {""}
  Nobody = Nobody
  Keys = {k1}
  NoKey = NoKey
  BadKey = BadKey
  LongKey = LongKey
  TTL = 1
  MaxClock = 1
  DBFaults = FALSE
  Crashes = TRUE
  NoInput = NoInput
INVARIANTS TrailReplays
PROPERTIES Promises EveryRequestEnds
CHECK_DEADLOCK FALSE
