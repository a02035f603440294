SPECIFICATION Spec
CONSTANTS
  r1 = r1
  r2 = r2
  r3 = r3
  Requests = {r1, r2, r3}
  Ids = {d1}
  Users = {alice, bob}
  Notes = {"", "n"}
  Nobody = Nobody
  NoInput = NoInput
  DBFaults = TRUE
  Crashes = TRUE
SYMMETRY Perms
INVARIANTS OneWinner WinnerOwnsRow AuditTrue RefusalTrue RereadHits
PROPERTIES LifecycleSpec
CHECK_DEADLOCK FALSE
