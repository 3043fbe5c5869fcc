SPECIFICATION Spec
CONSTANTS
  c1 = c1
  Events = Events
  Cmds = {c1}
  Made = {{c1,Events}}
  MaxMiss = 1
INVARIANTS
  StreamUndisturbed
PROPERTIES
  SshImplements
