SPECIFICATION FairSpec
CONSTANTS
  m1 = m1
  j1 = j1
  Machines = {m1}
  Jobs = {j1}
  InboxSize = 1
  MaxCapacity = 0
  Failures = {"fatal", "round", "session"}
PROPERTIES
  ShutdownCompletes
  SyncEnds
