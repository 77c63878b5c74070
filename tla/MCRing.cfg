SPECIFICATION RingSpec
CONSTANTS
  Value = {0, 1}
  Garbage = Garbage
  Size = 4
  IndexMod = 8
  MaxLen = 3
INVARIANT SlotsSafe
PROPERTY IsFifo
