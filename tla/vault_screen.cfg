SPECIFICATION Spec
CONSTANTS
  Profiles = {p1, p2}
  Logins = {l1, l2}
  Checks = {}
  Captures = {}
  Finishers = {f1}
  FaultKinds = {}
  MaxFaults = 0
INVARIANTS OneVisibleBrowser
CHECK_DEADLOCK FALSE
