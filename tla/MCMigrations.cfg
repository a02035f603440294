SPECIFICATION MSpec
CONSTANTS
  Runs = {m1, m2, m3}
  DBFaults = TRUE
SYMMETRY Perms
INVARIANTS Rerunnable AppliedMeansAll
CHECK_DEADLOCK FALSE
