SPECIFICATION Spec
CONSTANTS
  ann = ann
  ada = ada
  sue = sue
  sam = sam
  Requests = {r1, r2}
  Users = {ann, ada, sue}
  RoleOf <- MCRoleOf
  Nobody = Nobody
  NoInput = NoInput
  NoHeader = NoHeader
  Headers = {h1}
  LogLevels = {"info", "error"}
  Environments = {"development", "production"}
  Traffic = {"public", "list", "create", "decide", "remove"}
  Tokens = {ann, ada, sue, Nobody}
  Outcomes <- MCAllOutcomes
  Notes <- MCNotes
  Unreadable = {413, 502}
  GeneralMax = 1
  CreateMax = 1
  Window = 1
  MaxClock = 0
  MaxRestarts = 1
SYMMETRY Perms
INVARIANTS OnlyGranted LogTrue
CHECK_DEADLOCK FALSE
