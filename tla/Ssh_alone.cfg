SPECIFICATION FairSpec
CONSTANTS
  c1 = c1
  Events = Events
  Cmds = {c1}
  Made = {{c1}, {Events}}
  MaxMiss = 3
INVARIANTS
  FoundInTime
  LiveLinkKept
PROPERTIES
  SshReturns
  ReaderHears
