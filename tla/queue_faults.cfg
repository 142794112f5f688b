SPECIFICATION Spec
CONSTANTS
  Targets = {t1}
  Deletable = {t1}
  RunIds = {r1, r2, r3}
  Callers = {c1, c2}
  FaultKinds = {"worker_crash", "api_crash", "reserve_lost", "create_error", "enqueue_refused", "release_refused", "dequeue_lost", "enqueue_lost", "fail_lost", "escape", "lock_expiry", "startup_race"}
  MaxFaults = 2
SYMMETRY Symmetry
INVARIANTS FaultInvariant
PROPERTIES MessagesSurvive RecoveryIsComplete
CHECK_DEADLOCK FALSE
