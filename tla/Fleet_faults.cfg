SPECIFICATION Spec
CONSTANTS
  u1 = u1
  m1 = m1
  Units = {u1}
  Machines = {m1}
  MinRunners = 0
  MaxRunners = 1
  Budgets = {1}
  MaxAssigned = 1
  Faults = {"late", "cut", "drop", "fatal", "command", "github", "crash", "callback", "leftover", "unreached"}
INVARIANTS
  FleetInvariant
  NoJobKilled
  CapacityCurrent
PROPERTIES
  RegistrationFirst
