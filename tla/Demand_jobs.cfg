SPECIFICATION FairSpec
CONSTANTS
  Units = {u1, u2}
  Machines = {m1}
  MinRunners = 0
  MaxRunners = 1
  MaxJobs = 2
  MaxFaults = 1
INVARIANTS
  DemandInvariant
  FinishedCounted
  CompletionApplied
PROPERTY
  JobsServed
