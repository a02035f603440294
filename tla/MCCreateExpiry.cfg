SPECIFICATION Spec
CONSTANTS
  r1 = r1
  r2 = r2
  r3 = r3
  Requests = {r1, r2, r3}
  Ids = {r1, r2, r3}
  Users = {alice}
  Notes = {"", "n"}
  Nobody = Nobody
  Keys = {k1}
  NoKey = NoKey
  BadKey = BadKey
  LongKey = LongKey
  TTL = 1
  MaxClock = 2
  Serial = FALSE
  Prompt = TRUE
  DBFaults = FALSE
  Crashes = FALSE
  NoInput = NoInput
SYMMETRY Perms
INVARIANTS ExactlyOnce
CHECK_DEADLOCK FALSE
