SPECIFICATION FairSpec
CONSTANTS
  c1 = c1
  e1 = e1
  Runs = {c1}
  Streams = {e1}
  Sudo = {TRUE, FALSE}
PROPERTIES
  LocalImplements
  LocalReturns
  LocalReaderHears
  LocalLeavesNothing
