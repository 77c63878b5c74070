SPECIFICATION WifiFairSpec
CONSTANTS
  Config = {c1, c2}
  c1 = c1
  c2 = c2
  NoConfig = NoConfig
  MaxEvents = 2
INVARIANTS JobConsistent StopWins NoOldConnection 
PROPERTY AttemptsEnd
