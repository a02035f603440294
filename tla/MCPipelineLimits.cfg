SPECIFICATION Spec
CONSTANTS
  ann = ann
  ada = ada
  sue = sue
  sam = sam
  Requests = {r1, r2, r3, r4}
  Users = {sue, sam}
  RoleOf <- MCRoleOf
  Nobody = Nobody
  NoInput = NoInput
  NoHeader = NoHeader
  Headers = {}
  LogLevels = {"error"}
  Environments = {"development"}
  Traffic = {"create", "batch"}
  Tokens = {sue, sam}
  Outcomes <- MCStalled
  Notes <- MCNoNotes
  Unreadable = {}
  GeneralMax = 2
  CreateMax = 1
  Window = 2
  MaxClock = 2
  MaxRestarts = 0
SYMMETRY PermsOfBoth
INVARIANTS SlidingBound RefusalEarned
CHECK_DEADLOCK FALSE
