SPECIFICATION Spec
CONSTANTS
  Targets = {t1}
  Deletable = {}
  RunIds = {r1, r2}
  Callers = {c1}
  FaultKinds = {"startup_race"}
  MaxFaults = 0
INVARIANTS NoDuplicateMessage
CHECK_DEADLOCK FALSE
