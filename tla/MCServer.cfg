SPECIFICATION ServerFairSpec
CONSTANTS
  Tag <- Origin
  Buffers = {}
  Eoms = {FALSE}
  LineBufLen = 8
  ScpiBufLen = 9
  MaxBlockLen = 2
  ErrQueueLen = 2
  MayFail = {"begin", "data", "end", "cmd"}
  MaxLog = 0
  Messages <- Everything
  Scripts <- Conversations
  MaxMessages = 2
  MaxChunk = 2
INVARIANTS ScriptExecuted ErrorsReachTheirSession
PROPERTY ScriptServed
