SPECIFICATION Spec
CONSTANTS
  Profiles = {p1}
  Logins = {l1, l2}
  Checks = {k1}
  Captures = {w1}
  Finishers = {f1}
  FaultKinds = {"crash", "open_error", "stop_error", "seal_error", "hang"}
  MaxFaults = 2
SYMMETRY Symmetry
INVARIANTS VaultInvariant NoSessionIsOverwritten
PROPERTIES VaultSurvives
CHECK_DEADLOCK FALSE
