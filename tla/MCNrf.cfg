SPECIFICATION NrfFairSpec
CONSTANTS
  Handle = {h1, h2}
  h1 = h1
  h2 = h2
  NoHandle = NoHandle
  MaxResults = 1
  MaxCommands = 3
  MaxPreempts = 1
  LostWhileDropped = FALSE
CHECK_DEADLOCK FALSE
INVARIANTS   OfferedKeyIsWhole
PROPERTIES CentralJobsEnd
