SPECIFICATION FairSpec
CONSTANTS
  Profiles = {p1}
  Logins = {l1}
  Checks = {k1}
  Captures = {w1}
  Finishers = {f1}
  FaultKinds = {"crash", "open_error", "stop_error", "seal_error", "hang"}
  MaxFaults = 1
PROPERTIES ProfilesAreFreed
CHECK_DEADLOCK FALSE
