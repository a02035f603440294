SPECIFICATION Spec
CONSTANTS
  r1 = r1
  r2 = r2
  r3 = r3
  r4 = r4
  alice = alice
  bob = bob
  Requests = {r1, r2, r3, r4}
  Users = {alice}
  Nobody = Nobody
  Never = Never
  AccessTTL = 1
  RefreshTTL = 2
  MaxClock = 3
  Prompt = TRUE
  DBFaults = TRUE
  Crashes = TRUE
  NoInput = NoInput
SYMMETRY Perms
INVARIANTS LogoutIsFinal RefusalTrue CallTraceable AccessEnds
PROPERTIES SessionSpec
CHECK_DEADLOCK FALSE
