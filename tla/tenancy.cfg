SPECIFICATION Spec
CONSTANTS
  Users = {founder, guest}
  Founder = founder
  Threads = {t1, t2}
  MaxFailures = 2
  MaxEvents = 4
SYMMETRY Symmetry
CHECK_DEADLOCK FALSE
INVARIANTS
  TypeInvariant
  OneMembership
  Owned
  OneDefaultSpace
  PasswordsEndSessions
  OneLiveLink
  AttemptsAreBounded
