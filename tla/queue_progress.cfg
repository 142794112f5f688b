SPECIFICATION FairSpec
CONSTANTS
  Targets = {t1}
  Deletable = {t1}
  RunIds = {r1, r2}
  Callers = {c1, c2}
  FaultKinds = {"worker_crash", "enqueue_refused", "startup_race"}
  MaxFaults = 2
PROPERTIES QueuedRunsSettle TargetsAreFreed
CHECK_DEADLOCK FALSE
