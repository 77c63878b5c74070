SPECIFICATION GsSpec
CONSTANTS
  StreamCap = 1
  PipeCap = 1
  MaxOffered = 1
  MaxPlugs = 2
  Chan = {c1, c2}
  Mailbox = {m1}
  EchoId = {"a", "b"}
  RingCap = 1
  MaxRequests = 3
  CleanReopen = TRUE
INVARIANTS ChannelsKept CaptureAccounted
PROPERTIES EchoesFollowTransmission
