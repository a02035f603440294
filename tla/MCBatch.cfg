SPECIFICATION Spec
CONSTANTS
  Requests = {r1, r2}
  Users = {u1}
  Notes = {"", "n"}
  Nobody = Nobody
  NoInput = NoInput
  MaxItems = 3
  Ids <- MCIds
  Batches <- MCBatches
  DBFaults = TRUE
  Crashes = TRUE
SYMMETRY Sym
INVARIANTS ResultsTell CodeTells EachAlone
CHECK_DEADLOCK FALSE
