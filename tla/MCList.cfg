SPECIFICATION Spec
CONSTANTS
  Ids = {d1, d2, d3}
  Requests = {r1}
  Users = {alice}
  Notes = {""}
  Nobody = Nobody
  NoInput = NoInput
  NoDate = NoDate
  Queries <- MCQueries
  DefaultLimit = 2
  MaxLimit = 3
  IntMax = 7
  MaxDay = 2
  Amounts = {1, 2, 3}
  Entities = {"d", "e"}
  MaxWrites = 3
  DBFaults = TRUE
SYMMETRY Perms
INVARIANTS TypeOK PageExact TotalsAgree RowsAsked WalkWhole
CHECK_DEADLOCK FALSE
