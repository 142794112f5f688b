SPECIFICATION Spec
CONSTANTS
  Targets = {t1, t2}
  Deletable = {t1}
  RunIds = {r1, r2, r3}
  Callers = {c1, c2}
  FaultKinds = {"worker_crash", "api_crash", "reserve_lost", "create_error", "enqueue_refused", "release_refused", "dequeue_lost"}
  MaxFaults = 2
SYMMETRY Symmetry
INVARIANTS OneActiveRunPerTarget QueueInvariant
PROPERTIES ImplementsLedger
CHECK_DEADLOCK FALSE
