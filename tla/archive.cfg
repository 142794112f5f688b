SPECIFICATION Spec
CONSTANTS
  LastRun = 2
  MaxAttempts = 2
  MaxFiles = 4
  Contents = {1, 2}
  LastDay = 1
  DedupeMode = "content_hash"
  Backends = {"local", "google_drive", "s3"}
  StorageLimit = 3
  BatchSize = 1
  MaxEvents = 3
INVARIANTS
  TypeInvariant
  RowsHaveTheirImage
  StorageIsBounded
  OneCopyPerProcess
  CopiesAreReal
PROPERTIES
  UploadsComplete
CHECK_DEADLOCK FALSE
