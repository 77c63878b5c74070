SPECIFICATION CanSpec
CONSTANTS
  QueueMax = 1
  MaxOpen = 2
  MaxLoss = 2
  MaxRingLoss = 1
  Word = 8
INVARIANTS SocketsKept AtMostOneAfterStop NeverOvercounts
