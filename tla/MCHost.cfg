SPECIFICATION HostSpec
CONSTANTS
  MaxRuns = 4
  MaxErrors = 2
  MaxDrain = 3
  MaxWaiting = 3
INVARIANTS SessionInStep OutcomeIsTrue
PROPERTY WorkflowEnds
CHECK_DEADLOCK FALSE
