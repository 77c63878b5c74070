SPECIFICATION EspSpec
CONSTANTS
  Ctx = {usb, net}
  Handle = {h1, h2}
  NoHandle = NoHandle
  Addr = {a1, a2}
  MaxDev = 2
  MaxCommands = 4
SYMMETRY Alike
INVARIANTS TableKept  ConnectionIsTrue
CHECK_DEADLOCK FALSE
