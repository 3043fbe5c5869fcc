SPECIFICATION Spec
CONSTANTS
  m1 = m1
  m2 = m2
  Machines = {m1, m2}
  Jobs = {}
  InboxSize = 1
  MaxCapacity = 1
  Failures = {"auth", "setup", "fatal", "round", "session"}
SYMMETRY Symmetry
INVARIANTS
  LifecycleInvariant
  NothingLeftBehind
  SessionAfterSync
  PolledIsCurrent
