SPECIFICATION StreamFairSpec
CONSTANTS
  Stride = 3
  RingSize = 8
  SockCap = 4
  MaxFrames = 5
INVARIANTS RecordsArriveInOrder TornKnownAtDetach
PROPERTY ConsumersServed
