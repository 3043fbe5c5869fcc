SPECIFICATION Spec
CONSTANTS
  u1 = u1
  u2 = u2
  u3 = u3
  m1 = m1
  m2 = m2
  Units = {u1, u2, u3}
  Machines = {m1, m2}
  MinRunners = 1
  MaxRunners = 1
  Budgets = {1}
  MaxAssigned = 0
  Faults = {"leftover"}
SYMMETRY Symmetry
PROPERTIES
  NoOverPlacement
  CreatedWithinCapacity
