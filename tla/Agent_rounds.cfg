SPECIFICATION FairSpec
CONSTANTS
  c1 = c1
  Ctrs = {c1}
  Locals = {TRUE, FALSE}
  Podmans = {TRUE, FALSE}
  BackoffMax = 2
  MaxTurns = 1
CHECK_DEADLOCK FALSE
INVARIANTS
  AgentInvariant
  HealthIsTrue
  NothingRunsOn
  ExitsCovered
  ProvenNeverFails
  FlappingSlowsDown
PROPERTIES
  FirstNotice
  EndReported
  DieTold
  StopEnds
