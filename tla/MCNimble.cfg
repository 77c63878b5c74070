SPECIFICATION NimbleFairSpec
CONSTANTS
  Depth = 3
  CmdParts = 3
  MaxWrite = 2
  Fragments = 2
  MaxInFlight = 1
  MaxSession = 6
INVARIANTS   RepliesWhole
PROPERTY WorkerReturns
