SPECIFICATION FairSpec
CONSTANTS
  Tag = {"host"}
  Buffers <- MCBuffers
  Eoms = {TRUE, FALSE}
  LineBufLen = 3
  ScpiBufLen = 6
  MaxBlockLen = 2
  ErrQueueLen = 1
  MayFail = {"begin", "data", "end", "cmd"}
  MaxLog = 1
INVARIANTS BuffersInBounds BlocksKept FailureIsQueued
PROPERTY CallReturns
