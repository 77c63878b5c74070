SPECIFICATION UsbtmcFairSpec
CONSTANTS
  Replies <- Fitting
  TxCap = 6
  ReadSize = 8
  MaxRequest = 3
  MaxParts = 2
  Ids = 3
INVARIANTS RepliesReachTheirQuery 
PROPERTY ReadEnds
