SPECIFICATION Spec
CONSTANTS
  Profiles = {p1}
  Logins = {l1}
  Checks = {k1}
  Captures = {w1}
  Finishers = {f1}
  FaultKinds = {}
  MaxFaults = 0
INVARIANTS OneOpenerPerProfile
CHECK_DEADLOCK FALSE
